---- MODULE Spec2Model ----
(***************************************************************************)
(* Game_Forge backend: the three LangGraph pipelines (agent.py, agent__.py,*)
(* html_agent.py) and the FastAPI handlers of main.py that drive them.     *)
(*                                                                         *)
(* A session state is a Python dict: a function whose DOMAIN is the set of *)
(* keys present.  Generated text is a sequence of tokens; JSON text is a   *)
(* sequence of the tokens "{", "}", "[", "]", ",", member tokens           *)
(* ("status=fail"), scalar tokens and prose tokens.                        *)
(***************************************************************************)
EXTENDS Integers, Sequences, FiniteSets, TLC

(***************************************************************************)
(* Bounds of the model.                                                    *)
(***************************************************************************)
MaxSessions == 1
MaxCalls == 3
MaxFeedbacks == 3
\* super-steps one run of the graph may take before the engine gives up
\* (LangGraph's recursion_limit); longer than any run of a capped graph
MaxSuperSteps == 13
\* largest value of the retries parameter of llm_invoke_text taken on its own
MaxRetries == 4
\* longest run of prose on either side of a JSON object handed to safe_json_parse
MaxProse == 2
\* requests the event loop may hold in flight at the same time
MaxInFlight == 2

(***************************************************************************)
(* Program constants.                                                      *)
(***************************************************************************)
MAX_FIX_ITERATIONS == 2
MAX_FEEDBACK_ITERATIONS == 2
max_fix_rounds == 3
retries == 3

Variants == {"agent", "agent__", "html_agent"}
Sessions == 1..MaxSessions
END == "__end__"

(***************************************************************************)
(* Python dicts.                                                           *)
(***************************************************************************)
EmptyDict == [k \in {} |-> k]
Has(d, k) == k \in DOMAIN d
Get(d, k, default) == IF k \in DOMAIN d THEN d[k] ELSE default
Put(d, k, v) == [x \in (DOMAIN d) \cup {k} |-> IF x = k THEN v ELSE d[x]]

(***************************************************************************)
(* JSON text as token sequences.                                           *)
(***************************************************************************)
MemberTokens ==
  {"status=pass", "status=fail", "status=ok", "status=1",
   "issues=x", "issues=none",
   "template=platformer", "template=bogus",
   "chosen_template=Platformer", "chosen_template=Chess",
   "engine_choice=HTML_CANVAS", "estimated_complexity=medium",
   "estimated_complexity=high", "implemented=true", "implemented=false",
   "Changes=x", "Changes=none", "visual_changes=none", "genre=unknown", "q=x"}
ScalarTokens == {"null", "5", "str"}
ProseTokens == {"w"}
Fence == "fence"
Blank == " "

MemberKey(t) ==
  CASE t \in {"status=pass", "status=fail", "status=ok", "status=1"} -> "status"
    [] t \in {"issues=x", "issues=none"} -> "issues"
    [] t \in {"template=platformer", "template=bogus"} -> "template"
    [] t \in {"chosen_template=Platformer", "chosen_template=Chess"} -> "chosen_template"
    [] t = "engine_choice=HTML_CANVAS" -> "engine_choice"
    [] t \in {"estimated_complexity=medium", "estimated_complexity=high"} ->
         "estimated_complexity"
    [] t \in {"implemented=true", "implemented=false"} -> "implemented"
    [] t \in {"Changes=x", "Changes=none"} -> "Changes"
    [] t = "visual_changes=none" -> "visual_changes"
    [] t = "genre=unknown" -> "genre"
    [] OTHER -> "q"

MemberValue(t) ==
  CASE t = "status=pass" -> "pass"
    [] t = "status=fail" -> "fail"
    [] t = "status=ok" -> "ok"
    [] t = "status=1" -> "1"
    [] t = "template=platformer" -> "platformer"
    [] t = "template=bogus" -> "bogus"
    [] t = "chosen_template=Platformer" -> "Platformer"
    [] t = "chosen_template=Chess" -> "Chess"
    [] t = "engine_choice=HTML_CANVAS" -> "HTML_CANVAS"
    [] t = "estimated_complexity=medium" -> "medium"
    [] t = "estimated_complexity=high" -> "high"
    [] t = "implemented=true" -> "true"
    [] t = "implemented=false" -> "false"
    [] t = "genre=unknown" -> "unknown"
    [] t \in {"issues=none", "Changes=none", "visual_changes=none"} -> "none"
    [] OTHER -> "x"

\* a member whose JSON value is a number, not a string
MemberIsString(t) == t # "status=1"

\* members separated by commas: "{" m "," m "}"
IsMembers(s) ==
  /\ Len(s) % 2 = 1
  /\ \A i \in 1..Len(s) :
       IF i % 2 = 1 THEN s[i] \in MemberTokens ELSE s[i] = ","

RECURSIVE IsJson(_)
RECURSIVE IsElements(_)
\* json.loads accepts the whole of s
IsJson(s) ==
  \/ Len(s) = 1 /\ s[1] \in ScalarTokens
  \/ /\ Len(s) >= 2 /\ s[1] = "{" /\ s[Len(s)] = "}"
     /\ (Len(s) = 2 \/ IsMembers(SubSeq(s, 2, Len(s) - 1)))
  \/ /\ Len(s) >= 2 /\ s[1] = "[" /\ s[Len(s)] = "]"
     /\ (Len(s) = 2 \/ IsElements(SubSeq(s, 2, Len(s) - 1)))
IsElements(s) ==
  \/ IsJson(s)
  \/ \E i \in 2..(Len(s) - 1) :
       /\ s[i] = ","
       /\ IsJson(SubSeq(s, 1, i - 1))
       /\ IsElements(SubSeq(s, i + 1, Len(s)))

\* str.strip()
RECURSIVE Strip(_)
Strip(s) ==
  IF s = <<>> THEN s
  ELSE IF s[1] = Blank THEN Strip(Tail(s))
  ELSE IF s[Len(s)] = Blank THEN Strip(SubSeq(s, 1, Len(s) - 1))
  ELSE s

\* re.sub of a leading and of a trailing code fence (three backquotes)
StripLeadingFence(s) == IF s # <<>> /\ s[1] = Fence THEN Strip(Tail(s)) ELSE s
StripTrailingFence(s) ==
  IF s # <<>> /\ s[Len(s)] = Fence THEN Strip(SubSeq(s, 1, Len(s) - 1)) ELSE s
StripFences(s) == StripTrailingFence(StripLeadingFence(Strip(s)))

\* re.search(r"(\{[\s\S]*\})"): first opener to last closer, greedy
Positions(s, tok) == {i \in 1..Len(s) : s[i] = tok}
Min(S) == CHOOSE x \in S : \A y \in S : x <= y
Max(S) == CHOOSE x \in S : \A y \in S : x >= y
HasSpan(s, open, close) ==
  /\ Positions(s, open) # {}
  /\ \E j \in Positions(s, close) : j > Min(Positions(s, open))
GreedySpan(s, open, close) ==
  SubSeq(s, Min(Positions(s, open)), Max(Positions(s, close)))

ParseError == [ok |-> FALSE, value |-> <<>>]
Parsed(v) == [ok |-> TRUE, value |-> v]

\* the three attempts shared by every safe_json_parse
ParseAttempts(s) ==
  IF IsJson(s) THEN Parsed(s)
  ELSE IF HasSpan(s, "{", "}") /\ IsJson(GreedySpan(s, "{", "}"))
       THEN Parsed(GreedySpan(s, "{", "}"))
  ELSE IF HasSpan(s, "[", "]") /\ IsJson(GreedySpan(s, "[", "]"))
       THEN Parsed(GreedySpan(s, "[", "]"))
  ELSE ParseError

safe_json_parse_agent(s) == ParseAttempts(s)
safe_json_parse_agent__(s) == ParseAttempts(StripFences(s))
safe_json_parse_html_agent(s) == ParseAttempts(StripFences(s))
safe_json_parse(v, s) ==
  CASE v = "agent" -> safe_json_parse_agent(s)
    [] v = "agent__" -> safe_json_parse_agent__(s)
    [] OTHER -> safe_json_parse_html_agent(s)

\* parsed JSON values
IsDict(j) == Len(j) >= 2 /\ j[1] = "{"
IsList(j) == Len(j) >= 2 /\ j[1] = "["
IsStr(j) == j = <<"str">>
HasLen(j) == IsDict(j) \/ IsList(j) \/ IsStr(j)
Truthy(j) == j \notin {<<"{", "}">>, <<"[", "]">>, <<"null">>, <<>>}
KeyPositions(j, k) == {i \in 1..Len(j) : j[i] \in MemberTokens /\ MemberKey(j[i]) = k}
DictHas(j, k) == IsDict(j) /\ KeyPositions(j, k) # {}
DictMember(j, k) == j[Max(KeyPositions(j, k))]
DictGet(j, k, default) == IF DictHas(j, k) THEN MemberValue(DictMember(j, k)) ELSE default
DictGetIsString(j, k) == ~DictHas(j, k) \/ MemberIsString(DictMember(j, k))


(***************************************************************************)
(* The generation backend.  One call of llm_invoke_text sees a backend     *)
(* that fails `failures` times in a row and then answers `text`.           *)
(***************************************************************************)
BackendFailures == {0, 1, retries}
Backend(f, t) == [failures |-> f, text |-> t]
Backends(texts) ==
  {Backend(f, t) : f \in {0, 1}, t \in texts} \cup {Backend(retries, <<"w">>)}

LLMRaised == [raised |-> TRUE, text |-> <<>>]
LLMText(t) == [raised |-> FALSE, text |-> t]

\* what active_llm.invoke does at each invocation of one call: it raises,
\* or it answers a text
InvokeRaises == [ok |-> FALSE, content |-> <<>>]
InvokeAnswers(t) == [ok |-> TRUE, content |-> t]
\* the backend of b, invocation by invocation
Invocations(b, n) ==
  [i \in 1..n |-> IF i <= b.failures THEN InvokeRaises ELSE InvokeAnswers(b.text)]

\* for attempt in range(1, retries + 1): try invoke, return content.strip();
\* after the loop raise RuntimeError.  RetryLoop: the attempt that returns,
\* n + 1 when the loop runs out
RECURSIVE RetryLoop(_, _, _)
RetryLoop(outcomes, n, attempt) ==
  IF attempt > n THEN n + 1
  ELSE IF outcomes[attempt].ok THEN attempt
  ELSE RetryLoop(outcomes, n, attempt + 1)
\* invoked: the invocations made, in order
AfterLoop(outcomes, n, last) ==
  IF last > n
  THEN [raised |-> TRUE, text |-> <<>>, invoked |-> [i \in 1..n |-> i]]
  ELSE [raised |-> FALSE, text |-> Strip(outcomes[last].content),
        invoked |-> [i \in 1..last |-> i]]
\* llm_invoke_text(prompt, state, retries = n)
\* (mutation: a loop that gives up one attempt early)
llm_invoke_text_one_attempt_short(outcomes, n) ==
  AfterLoop(outcomes, n - 1, RetryLoop(outcomes, n - 1, 1))
llm_invoke_text_retrying(outcomes, n) == AfterLoop(outcomes, n, RetryLoop(outcomes, n, 1))

\* agent.py: a single invocation, the exception propagates
llm_invoke_text_agent(b) ==
  IF b.failures >= 1 THEN LLMRaised ELSE LLMText(Strip(b.text))
\* the attempt at which the loop returns with the default retries, for each
\* number of failures a backend starts with
ReturningAttempt ==
  [f \in BackendFailures |->
     RetryLoop(Invocations(Backend(f, <<>>), retries), retries, 1)]
\* agent__.py: up to retries invocations, then RuntimeError; the text
\* returned is the content of the invocation that answered, b.text
llm_invoke_text_agent__(b) ==
  IF ReturningAttempt[b.failures] > retries THEN LLMRaised ELSE LLMText(Strip(b.text))
\* html_agent.py: the same loop
llm_invoke_text_html_agent(b) ==
  IF ReturningAttempt[b.failures] > retries THEN LLMRaised ELSE LLMText(Strip(b.text))
llm_invoke_text(v, b) ==
  CASE v = "agent" -> llm_invoke_text_agent(b)
    [] v = "agent__" -> llm_invoke_text_agent__(b)
    [] OTHER -> llm_invoke_text_html_agent(b)

\* what the backend may answer to each kind of prompt
QuestionTexts ==
  {<<"fence", "[", "{", "q=x", "}", "]", "fence">>,
   <<"w", "[", "{", "q=x", "}", "]">>,
   <<"null">>,
   <<"w">>}
TemplateTexts(v) ==
  IF v = "agent__"
  THEN {<<"{", "chosen_template=Platformer", "}">>,
        <<"{", "chosen_template=Chess", "}">>, <<"w">>}
  ELSE {<<"fence", "{", "template=platformer", "}", "fence">>,
        <<"{", "template=bogus", "}">>, <<"w">>}
ChangesTexts(v) ==
  IF v = "agent__" THEN {<<"{", "visual_changes=none", "}">>, <<"w">>}
  ELSE {<<"{", "Changes=none", "}">>, <<"w">>}
CodeTexts == {<<"c1">>, <<"fence", "c1", "fence">>, <<"fence">>}
ReviewTexts ==
  {<<"{", "status=pass", ",", "issues=none", "}">>,
   <<"w", "{", "status=fail", ",", "issues=x", "}">>,
   <<"{", "status=ok", "}">>,
   <<"w">>}
IntentTexts == {<<"{", "genre=unknown", "}">>, <<"w">>}
DesignTexts == {<<"w">>, <<"w", "sep", "{", "estimated_complexity=medium", "}">>}
EngineTexts == {<<"{", "engine_choice=HTML_CANVAS", "}">>, <<"w">>}

(***************************************************************************)
(* The template library on disk (the files VANILLA_TEMPLATES names).       *)
(***************************************************************************)
VANILLA_TEMPLATES ==
  [space_shooter |-> "library/SpaceShooter.html",
   arena_shooter |-> "library/ArenaShooter.html",
   platformer |-> "library/Platformer.html",
   racing |-> "library/Racing.html",
   fighting |-> "library/Fighting.html",
   camping |-> "library/Camping.html",
   sports |-> "library/Football.html",
   Puzzle |-> "library/Puzzle.html",
   Maze |-> "library/Maze.html"]
NoPath == "None"
TemplatePath(name) ==
  IF name \in DOMAIN VANILLA_TEMPLATES THEN VANILLA_TEMPLATES[name] ELSE NoPath
LibraryFiles == {VANILLA_TEMPLATES[n] : n \in DOMAIN VANILLA_TEMPLATES}
FileExists(path) == path \in LibraryFiles
ReadFile(path) == <<path>>
\* f"library/{name}.html"
LibraryPath(name) ==
  CASE name = "Platformer" -> "library/Platformer.html"
    [] name = "Chess" -> "library/Chess.html"
    [] OTHER -> "library/sports.html"
DefaultTemplateCode == <<"default_template">>

(***************************************************************************)
(* Node functions.  Each takes the state and what the backend does during  *)
(* the call, and either returns the new state or raises.                   *)
(***************************************************************************)
Returns(st) == [raised |-> FALSE, state |-> st]
Raises(st) == [raised |-> TRUE, state |-> st]
NewUuid == 0
StaticQuestions == <<"[", "{", "q=x", "}", "]">>
PassVerdict == <<"{", "status=pass", ",", "issues=none", "}">>
FailVerdict == <<"{", "status=fail", ",", "issues=x", "}">>
EmptyJsonDict == <<"{", "}">>
NoneValue == "None"

\* ---- collect_user_idea
collect_user_idea_agent(st) ==
  LET s1 == IF Get(st, "session_id", NewUuid) = NewUuid
            THEN Put(st, "session_id", NewUuid) ELSE st
      s2 == Put(s1, "user_raw_input", Get(s1, "user_raw_input", <<>>))
      s3 == Put(s2, "validated", FALSE)
  IN Returns(Put(s3, "fix_iteration", 0))
collect_user_idea_agent__(st) ==
  Returns(Put(st, "session_id", Get(st, "session_id", NewUuid)))
\* (mutation: a step that draws a new identifier whatever the caller gave)
collect_user_idea_html_agent_replaces_id(st) ==
  LET s1 == Put(st, "session_id", NewUuid)
  IN Returns(Put(s1, "template_history", Get(s1, "template_history", <<>>)))
collect_user_idea_html_agent(st) ==
  LET s1 == Put(st, "session_id", Get(st, "session_id", NewUuid))
  IN Returns(Put(s1, "template_history", Get(s1, "template_history", <<>>)))

\* ---- intent_analysis (agent.py)
intent_analysis(st, b) ==
  IF Get(st, "user_raw_input", <<>>) = <<>>
  THEN Returns(Put(st, "intent", EmptyJsonDict))
  ELSE LET out == llm_invoke_text_agent(b)
           p == safe_json_parse_agent(out.text)
       IN IF out.raised THEN Raises(st)
          ELSE IF p.ok /\ IsDict(p.value) THEN Returns(Put(st, "intent", p.value))
          ELSE Returns(Put(st, "intent", <<"{", "genre=unknown", "}">>))

\* ---- generate_questions
QuestionsOrFallback(p) == IF p.ok /\ HasLen(p.value) THEN p.value ELSE StaticQuestions
generate_questions_agent(st, b) ==
  LET out == llm_invoke_text_agent(b)
  IN IF out.raised THEN Raises(st)
     ELSE Returns(Put(st, "questions", QuestionsOrFallback(safe_json_parse_agent(out.text))))
generate_questions_agent__(st, b) ==
  LET out == llm_invoke_text_agent__(b)
  IN IF out.raised THEN Raises(st)
     ELSE Returns(Put(st, "questions", QuestionsOrFallback(safe_json_parse_agent__(out.text))))
generate_questions_html_agent(st) == Returns(Put(st, "questions", StaticQuestions))

\* ---- collect_user_answers: the payload handed to interrupt(), and the
\* ---- rest of the node once interrupt() returns the reply
InterruptMessage(v) ==
  CASE v = "agent" ->
         "Please answer these questions (choose or type custom answers) to personalize your game."
    [] v = "agent__" -> "Please answer the questions below to personalize your game."
    [] OTHER -> "Answer these questions to customize your game:"
InterruptPayload(v, st) ==
  [session_id |-> Get(st, "session_id", NewUuid),
   questions |-> Get(st, "questions", <<"[", "]">>),
   message |-> InterruptMessage(v)]
collect_user_answers(st, answers) == Returns(Put(st, "answers", answers))

\* ---- validate_inputs (agent.py)
\* (mutation: a validation that asks for the idea alone)
validate_inputs_ignores_answers(st) ==
  IF Get(st, "user_raw_input", <<>>) = <<>>
  THEN Raises(st)
  ELSE Returns(Put(st, "validated", TRUE))
validate_inputs(st) ==
  IF Get(st, "user_raw_input", <<>>) = <<>> \/ Get(st, "answers", <<>>) = <<>>
  THEN Raises(st)
  ELSE Returns(Put(st, "validated", TRUE))


\* ---- identify_game_template
identify_game_template_agent__(st, b) ==
  LET out == llm_invoke_text_agent__(b)
      p == safe_json_parse_agent__(out.text)
  IN IF out.raised THEN Raises(st)
     ELSE IF p.ok /\ DictHas(p.value, "chosen_template")
          THEN Returns(Put(st, "chosen_template", DictGet(p.value, "chosen_template", "")))
     ELSE Returns(Put(st, "chosen_template", "sports"))
identify_game_template_html_agent(st, b) ==
  LET out == llm_invoke_text_html_agent(b)
      p == safe_json_parse_html_agent(out.text)
      named == DictGet(p.value, "template", "platformer")
      chosen == IF named \in DOMAIN VANILLA_TEMPLATES THEN named ELSE "space_shooter"
  IN IF out.raised THEN Raises(st)
     ELSE IF p.ok /\ IsDict(p.value)
          THEN Returns(Put(Put(st, "chosen_template", chosen), "template_history",
                           Append(Get(st, "template_history", <<>>), chosen)))
     ELSE Returns(Put(st, "chosen_template", "platformer"))

\* ---- load_template_from_library
load_template_from_library_agent__(st) ==
  LET path == LibraryPath(st["chosen_template"])
  IN IF ~FileExists(path) THEN Raises(st)
     ELSE Returns(Put(st, "base_template_code", ReadFile(path)))
Contains(text, word) == \E i \in 1..Len(text) : text[i] = word
\* open(path): a path that is None or names no file raises
EarlyCompletion(st, path) ==
  IF ~FileExists(path) THEN Raises(st)
  ELSE Returns(Put(Put(st, "final_code", ReadFile(path)), "early_completion", TRUE))
load_template_from_library_html_agent(st) ==
  LET path == TemplatePath(Get(st, "chosen_template", "platformer"))
      idea == st["user_raw_input"]
  IN IF Contains(idea, "match 3") THEN EarlyCompletion(st, TemplatePath("Puzzle"))
     ELSE IF Contains(idea, "mario") THEN EarlyCompletion(st, TemplatePath("platformer"))
     ELSE IF Contains(idea, "pac man") THEN EarlyCompletion(st, TemplatePath("maze"))
     ELSE IF path = NoPath \/ ~FileExists(path)
          THEN Returns(Put(st, "base_template_code", DefaultTemplateCode))
     ELSE Returns(Put(st, "base_template_code", ReadFile(path)))

\* ---- suggest_visual_feature_changes
suggest_visual_feature_changes_agent__(st, b) ==
  LET out == llm_invoke_text_agent__(b)
      p == safe_json_parse_agent__(out.text)
  IN IF out.raised THEN Raises(st)
     ELSE IF p.ok /\ IsDict(p.value) THEN Returns(Put(st, "game_modifications", p.value))
     ELSE Returns(Put(st, "game_modifications", <<"{", "visual_changes=none", "}">>))
suggest_visual_feature_changes_html_agent(st, b) ==
  LET out == llm_invoke_text_html_agent(b)
      p == safe_json_parse_html_agent(out.text)
  IN IF out.raised THEN Raises(st)
     ELSE IF p.ok /\ DictHas(p.value, "Changes")
          THEN Returns(Put(st, "game_modifications", p.value))
     ELSE Returns(Put(st, "game_modifications", <<"{", "Changes=none", "}">>))

\* ---- apply_changes_to_template
apply_changes_to_template_agent__(st, b) ==
  LET out == llm_invoke_text_agent__(b)
  IN IF out.raised THEN Raises(st)
     ELSE Returns(Put(st, "generated_code", StripFences(out.text)))
apply_changes_to_template_html_agent(st, b) ==
  LET out == llm_invoke_text_html_agent(b)
  IN IF out.raised THEN Raises(st)
     ELSE Returns(Put(st, "generated_code", StripFences(out.text)))

\* ---- design_game_blueprint, engine_decision, build_code_prompt,
\* ---- generate_game_code (agent.py)
SepPositions(t) == {i \in 1..Len(t) : t[i] = "sep"}
design_game_blueprint(st, b) ==
  LET out == llm_invoke_text_agent(b)
      t == out.text
      k == Min(SepPositions(t))
      p == safe_json_parse_agent(Strip(SubSeq(t, k + 1, Len(t))))
      fallback == <<"{", "estimated_complexity=medium", "}">>
  IN IF out.raised THEN Raises(st)
     ELSE IF SepPositions(t) # {}
          THEN Returns(Put(Put(st, "design_doc", Strip(SubSeq(t, 1, k - 1))),
                           "design_doc_structured",
                           IF p.ok /\ IsDict(p.value) THEN p.value ELSE fallback))
     ELSE Returns(Put(Put(st, "design_doc", t), "design_doc_structured", fallback))
\* the except branch of engine_decision: PHASER when the design says high
\* (mutation: a fallback that is the same whatever the design says)
EngineFallback_ignores_design(st) == "HTML_CANVAS"
EngineFallback(st) ==
  LET design_struct == Get(st, "design_doc_structured", EmptyJsonDict)
  IN IF DictGet(design_struct, "estimated_complexity", "medium") = "high"
     THEN "PHASER" ELSE "HTML_CANVAS"
engine_decision(st, b) ==
  LET out == llm_invoke_text_agent(b)
      p == safe_json_parse_agent(out.text)
  IN IF out.raised THEN Raises(st)
     ELSE IF p.ok /\ IsDict(p.value)
          THEN Returns(Put(st, "engine_choice", DictGet(p.value, "engine_choice", "HTML_CANVAS")))
     ELSE Returns(Put(st, "engine_choice", EngineFallback(st)))
build_code_prompt(st) == Returns(Put(st, "game_prompt", <<"prompt">>))
generate_game_code(st, b) ==
  LET out == llm_invoke_text_agent(b)
  IN IF Get(st, "game_prompt", <<>>) = <<>> THEN Raises(st)
     ELSE IF out.raised THEN Raises(st)
     ELSE Returns(Put(st, "generated_code", StripFences(out.text)))

\* ---- review_code
\* the parsed review survives the node's own uses of it
ReviewUsable(p) == p.ok /\ IsDict(p.value) /\ DictGetIsString(p.value, "status")
review_code_agent(st, b) ==
  LET out == llm_invoke_text_agent(b)
      p == safe_json_parse_agent(out.text)
  IN IF out.raised THEN Raises(st)
     ELSE Returns(Put(st, "review_notes", IF ReviewUsable(p) THEN p.value ELSE FailVerdict))
review_code_agent__(st, b) ==
  LET out == llm_invoke_text_agent__(b)
      p == safe_json_parse_agent__(out.text)
  IN IF out.raised THEN Raises(st)
     ELSE Returns(Put(st, "review_notes", IF ReviewUsable(p) THEN p.value ELSE FailVerdict))
review_code_html_agent(st, b) ==
  LET out == llm_invoke_text_html_agent(b)
      p == safe_json_parse_html_agent(out.text)
  IN IF out.raised THEN Raises(st)
     ELSE Returns(Put(st, "review_notes", IF ReviewUsable(p) THEN p.value ELSE PassVerdict))

\* ---- fix_game_code
\* (mutation: a repair that leaves the counter alone)
FixWith_counter_unchanged(st, out) ==
  LET review == Get(st, "review_notes", EmptyJsonDict)
      fixed == StripFences(out.text)
  IN IF DictGet(review, "status", NoneValue) = "pass"
     THEN Returns(Put(st, "final_code", Get(st, "generated_code", <<>>)))
     ELSE IF out.raised THEN Raises(st)
     ELSE Returns(Put(Put(st, "final_code", fixed), "generated_code", fixed))
FixWith(st, out) ==
  LET s1 == Put(st, "fix_iteration", Get(st, "fix_iteration", 0) + 1)
      review == Get(st, "review_notes", EmptyJsonDict)
      fixed == StripFences(out.text)
  IN IF DictGet(review, "status", NoneValue) = "pass"
     THEN Returns(Put(s1, "final_code", Get(s1, "generated_code", <<>>)))
     ELSE IF out.raised THEN Raises(s1)
     ELSE Returns(Put(Put(s1, "final_code", fixed), "generated_code", fixed))
fix_game_code_agent(st, b) == FixWith(st, llm_invoke_text_agent(b))
fix_game_code_agent__(st, b) == FixWith(st, llm_invoke_text_agent__(b))
fix_game_code_html_agent(st, b) == FixWith(st, llm_invoke_text_html_agent(b))

\* ---- finalize_output
\* final_code or generated_code or ""
FinalHtml(st) ==
  IF Get(st, "final_code", <<>>) # <<>> THEN st["final_code"]
  ELSE Get(st, "generated_code", <<>>)
finalize_output_agent(st) ==
  Returns(Put(Put(st, "final_summary", "Game generation complete."), "final_response",
    [session_id |-> Get(st, "session_id", NewUuid),
     fix_iterations |-> Get(st, "fix_iteration", 0),
     html |-> FinalHtml(st)]))
finalize_output_agent__(st) ==
  Returns(Put(Put(st, "final_summary", "Game generation complete."), "final_response",
    [session_id |-> Get(st, "session_id", NewUuid),
     fix_iterations |-> Get(st, "fix_iteration", 0),
     html |-> FinalHtml(st)]))
finalize_output_html_agent(st) ==
  Returns(Put(Put(st, "final_summary", "Game generation complete."), "final_response",
    [success |-> TRUE,
     session_id |-> Get(st, "session_id", NewUuid),
     template |-> Get(st, "chosen_template", NoneValue),
     fix_iterations |-> Get(st, "fix_iteration", 0),
     html |-> FinalHtml(st)]))

\* ---- apply_feedback_to_code (b2: the second, reinforcing call of agent__.py)
apply_feedback_to_code_agent__(st, b, b2) ==
  LET code == FinalHtml(st)
      out == llm_invoke_text_agent__(b)
      fixed == StripFences(out.text)
      out2 == llm_invoke_text_agent__(b2)
      fixed2 == StripFences(out2.text)
      store(f) == Returns(Put(Put(st, "final_code", f), "generated_code", f))
  IN IF Get(st, "user_feedback", "") = "" THEN Returns(st)
     ELSE IF out.raised THEN Raises(st)
     ELSE IF Strip(fixed) = Strip(code)
          THEN (IF out2.raised THEN Raises(st) ELSE store(fixed2))
     ELSE store(fixed)
\* (mutation: the new code is written to generated_code alone)
apply_feedback_to_code_html_agent_keeps_final_code(st, b) ==
  LET out == llm_invoke_text_html_agent(b)
      fixed == StripFences(out.text)
  IN IF Get(st, "user_feedback", "") = "" THEN Returns(st)
     ELSE IF out.raised THEN Raises(st)
     ELSE Returns(Put(st, "generated_code", fixed))
apply_feedback_to_code_html_agent(st, b) ==
  LET out == llm_invoke_text_html_agent(b)
      fixed == StripFences(out.text)
  IN IF Get(st, "user_feedback", "") = "" THEN Returns(st)
     ELSE IF out.raised THEN Raises(st)
     ELSE Returns(Put(Put(st, "final_code", fixed), "generated_code", fixed))

\* ---- verify_feedback_applied (b1, b2: the calls of the re-application)
verify_feedback_applied_agent__(st, b, b1, b2) ==
  LET out == llm_invoke_text_agent__(b)
      p == safe_json_parse_agent__(out.text)
      again == apply_feedback_to_code_agent__(st, b1, b2)
  IN IF Get(st, "user_feedback", "") = "" \/ Get(st, "final_code", <<>>) = <<>>
     THEN Returns(st)
     ELSE IF out.raised THEN Raises(st)
     ELSE IF p.ok /\ IsDict(p.value) /\ DictGet(p.value, "implemented", "true") = "false"
          THEN (IF again.raised THEN Returns(st) ELSE again)
     ELSE Returns(st)
verify_feedback_applied_html_agent(st) == Returns(st)

(***************************************************************************)
(* Branch functions and edges of the three graphs.                         *)
(***************************************************************************)
\* rn = state.get("review_notes") or {}; status = rn.get("status", "fail")
\* (mutation: only a verdict that says pass leaves the repair loop)
review_branch_pass_only(st) ==
  LET rn == Get(st, "review_notes", EmptyJsonDict)
  IN IF DictGet(rn, "status", "fail") = "pass" THEN "finalize_output" ELSE "fix_game_code"
review_branch(st) ==
  LET rn == Get(st, "review_notes", EmptyJsonDict)
  IN IF DictGet(rn, "status", "fail") = "fail" THEN "fix_game_code" ELSE "finalize_output"
review_branch_agent(st) == review_branch(st)
review_branch_agent__(st) == review_branch(st)
review_branch_html_agent(st) == review_branch(st)

\* (mutation: a ceiling test that never fires)
fix_branch_never_finalizes(st) == "review_code"
fix_branch_agent__(st) ==
  IF Get(st, "fix_iteration", 0) > MAX_FIX_ITERATIONS THEN "finalize_output" ELSE "review_code"
\* (mutation: the ceiling is reached one repair earlier)
fix_branch_html_agent_at_ceiling(st) ==
  IF Get(st, "fix_iteration", 0) >= MAX_FIX_ITERATIONS THEN "finalize_output" ELSE "review_code"
fix_branch_html_agent(st) ==
  IF Get(st, "fix_iteration", 0) > MAX_FIX_ITERATIONS THEN "finalize_output" ELSE "review_code"

should_skip_customization(st) ==
  IF Get(st, "early_completion", FALSE) THEN "finalize_output"
  ELSE "suggest_visual_feature_changes"

\* both branches of feedback_loop_decision return END
feedback_loop_decision(st) ==
  IF Get(st, "feedback_iteration", 0) >= MAX_FEEDBACK_ITERATIONS THEN END ELSE END

\* workflow.add_node: the nodes each graph registers
FeedbackNodes == {"collect_user_feedback", "apply_feedback_to_code", "verify_feedback_applied"}
Registered(v) ==
  FeedbackNodes \cup
    IF v = "agent"
    THEN {"intent_analysis", "collect_user_idea", "generate_questions",
          "collect_user_answers", "validate_inputs", "design_game_blueprint",
          "engine_decision", "build_code_prompt", "generate_game_code",
          "review_code", "fix_game_code", "finalize_output"}
    ELSE {"collect_user_idea", "generate_questions", "collect_user_answers",
          "identify_game_template", "load_template_from_library",
          "suggest_visual_feature_changes", "apply_changes_to_template",
          "review_code", "fix_game_code", "finalize_output"}

\* the node that follows a node when it has returned st
workflow_agent(node, st) ==
  CASE node = "intent_analysis" -> "collect_user_idea"
    [] node = "collect_user_idea" -> "generate_questions"
    [] node = "generate_questions" -> "collect_user_answers"
    [] node = "collect_user_answers" -> "validate_inputs"
    [] node = "validate_inputs" -> "design_game_blueprint"
    [] node = "design_game_blueprint" -> "engine_decision"
    [] node = "engine_decision" -> "build_code_prompt"
    [] node = "build_code_prompt" -> "generate_game_code"
    [] node = "generate_game_code" -> "review_code"
    [] node = "review_code" -> review_branch_agent(st)
    [] node = "fix_game_code" -> "review_code"
    [] node = "collect_user_feedback" -> "apply_feedback_to_code"
    [] node = "apply_feedback_to_code" -> "verify_feedback_applied"
    [] node = "verify_feedback_applied" -> "review_code"
    [] OTHER -> END
workflow_agent__(node, st) ==
  CASE node = "collect_user_idea" -> "generate_questions"
    [] node = "generate_questions" -> "collect_user_answers"
    [] node = "collect_user_answers" -> "identify_game_template"
    [] node = "identify_game_template" -> "load_template_from_library"
    [] node = "load_template_from_library" -> "suggest_visual_feature_changes"
    [] node = "suggest_visual_feature_changes" -> "apply_changes_to_template"
    [] node = "apply_changes_to_template" -> "review_code"
    [] node = "review_code" -> review_branch_agent__(st)
    [] node = "fix_game_code" -> fix_branch_agent__(st)
    [] node = "collect_user_feedback" -> "apply_feedback_to_code"
    [] node = "apply_feedback_to_code" -> "verify_feedback_applied"
    [] node = "verify_feedback_applied" -> feedback_loop_decision(st)
    [] OTHER -> END
workflow_html_agent(node, st) ==
  CASE node = "collect_user_idea" -> "generate_questions"
    [] node = "generate_questions" -> "collect_user_answers"
    [] node = "collect_user_answers" -> "identify_game_template"
    [] node = "identify_game_template" -> "load_template_from_library"
    [] node = "load_template_from_library" -> should_skip_customization(st)
    [] node = "suggest_visual_feature_changes" -> "apply_changes_to_template"
    [] node = "apply_changes_to_template" -> "review_code"
    [] node = "review_code" -> review_branch_html_agent(st)
    [] node = "fix_game_code" -> fix_branch_html_agent(st)
    [] node = "collect_user_feedback" -> "apply_feedback_to_code"
    [] node = "apply_feedback_to_code" -> "verify_feedback_applied"
    [] node = "verify_feedback_applied" -> feedback_loop_decision(st)
    [] OTHER -> END
workflow(v, node, st) ==
  CASE v = "agent" -> workflow_agent(node, st)
    [] v = "agent__" -> workflow_agent__(node, st)
    [] OTHER -> workflow_html_agent(node, st)
EntryPoint(v) == IF v = "agent" THEN "intent_analysis" ELSE "collect_user_idea"

\* class GameAgentState(TypedDict): the keys the graph has a channel for.
\* The engine keeps an entry of the input, or of the dict a node returns,
\* only if its key is one of them.
GameAgentState(v) ==
  CASE v = "agent" ->
         {"session_id", "user_raw_input", "intent", "questions", "answers",
          "validated", "design_doc", "design_doc_structured", "engine_choice",
          "engine_reasoning", "game_prompt", "generated_code", "review_notes",
          "final_code", "final_summary", "final_response", "fix_iteration",
          "user_feedback", "feedback_iteration", "feedback_history"}
    [] v = "agent__" ->
         {"session_id", "user_raw_input", "questions", "answers",
          "chosen_template", "base_template_code", "game_modifications",
          "generated_code", "review_notes", "final_code", "final_response",
          "fix_iteration", "user_feedback", "feedback_iteration",
          "feedback_history", "model_name"}
    [] OTHER ->
         {"session_id", "user_raw_input", "questions", "answers",
          "chosen_template", "template_history", "base_template_code",
          "game_modifications", "generated_code", "review_notes", "final_code",
          "final_response", "final_summary", "fix_iteration", "user_feedback",
          "feedback_iteration", "feedback_history", "model_name",
          "early_completion"}
Channels(v, st) == [k \in (DOMAIN st) \cap GameAgentState(v) |-> st[k]]


(***************************************************************************)
(* State of the running server.                                            *)
(***************************************************************************)
VARIABLES
  variant,           \* which pipeline module the server runs
  checkpoint,        \* MemorySaver: thread_id -> latest values and cursor
  GAME_SESSIONS,     \* main.py store: session_id -> state dict
  FINAL_HTML_STORE,  \* main.py store: session_id -> html
  call,              \* the API call being served, or the last one served
  ncalls,            \* API calls received so far
  nfeedbacks,        \* /api/feedback calls among them
  nodeRuns,          \* history: completed executions of each graph node, per session
  reviewLog,         \* history: whether every review_code of the session stored "fail"
  probe              \* one call of a helper function taken on its own: input and result

vars == <<variant, checkpoint, GAME_SESSIONS, FINAL_HTML_STORE, call, ncalls,
          nfeedbacks, nodeRuns, reviewLog, probe>>

NodeNames ==
  {"intent_analysis", "collect_user_idea", "generate_questions",
   "collect_user_answers", "validate_inputs", "identify_game_template",
   "load_template_from_library", "suggest_visual_feature_changes",
   "apply_changes_to_template", "design_game_blueprint", "engine_decision",
   "build_code_prompt", "generate_game_code", "review_code", "fix_game_code",
   "finalize_output"}

\* a blank idea matters to validate_inputs, "pac man" and "mario" to the
\* html_agent library
Prompts(v) ==
  CASE v = "agent" -> {<<"maze">>, <<" ">>}
    [] v = "agent__" -> {<<"maze">>}
    [] OTHER -> {<<"maze">>, <<"pac man">>, <<"mario">>}
\* an empty reply matters to validate_inputs only
Answers(v) == IF v = "agent" THEN {<<"a1">>, <<>>} ELSE {<<"a1">>}
Feedbacks == {"faster", ""}
ModelName == "gpt"

NoResponse == [type |-> "none"]
NoProbe == [fn |-> "none"]
IdleCall ==
  [kind |-> "none", sid |-> 0, pc |-> "idle", outcome |-> "none",
   entry |-> "none", reply |-> <<>>, state |-> EmptyDict, payload |-> NoResponse,
   steps |-> 0, ran |-> 0, resp |-> NoResponse,
   stored |-> EmptyDict]  \* history: GAME_SESSIONS[sid] when a feedback call arrived

Init ==
  /\ variant \in Variants
  /\ checkpoint = EmptyDict
  /\ GAME_SESSIONS = EmptyDict
  /\ FINAL_HTML_STORE = EmptyDict
  /\ call = IdleCall
  /\ ncalls = 0
  /\ nfeedbacks = 0
  /\ nodeRuns = [s \in Sessions |-> [n \in NodeNames |-> 0]]
  /\ reviewLog = [s \in Sessions |-> "none"]
  /\ probe = NoProbe

Idle == call.pc = "idle"
\* GAME_SESSIONS[session_id] = result
\* (mutation: a store whose entries all take the value written last)
Store_shared_by_sessions(map, k, v) == [x \in (DOMAIN map) \cup {k} |-> v]
Store(map, k, v) == Put(map, k, v)

(***************************************************************************)
(* main.py: /api/start up to the await of ainvoke.                         *)
(***************************************************************************)
StartGame(prompt) ==
  /\ Idle
  /\ ncalls < MaxCalls
  /\ Cardinality(DOMAIN checkpoint) < MaxSessions
  /\ LET sid == Cardinality(DOMAIN checkpoint) + 1
         state == [session_id |-> sid, user_raw_input |-> Strip(prompt),
                   model_name |-> ModelName]
     IN /\ checkpoint' = Store(checkpoint, sid,
             [values |-> Channels(variant, state), next |-> EntryPoint(variant),
              interrupted |-> FALSE])
        /\ call' = [IdleCall EXCEPT !.kind = "start", !.sid = sid, !.pc = "graph",
                                    !.outcome = "running", !.entry = EntryPoint(variant)]
  /\ ncalls' = ncalls + 1
  /\ UNCHANGED <<variant, probe, GAME_SESSIONS, FINAL_HTML_STORE, nfeedbacks, nodeRuns, reviewLog>>

(***************************************************************************)
(* The graph engine: one super-step runs the node under the cursor and     *)
(* checkpoints what it returned together with the next cursor.             *)
(***************************************************************************)
AtNode(node) ==
  /\ call.pc = "graph"
  /\ call.steps < MaxSuperSteps
  /\ checkpoint[call.sid].next = node
Values == checkpoint[call.sid].values

Counted(node) ==
  nodeRuns' = [nodeRuns EXCEPT ![call.sid][node] = @ + 1]

\* a node that raises leaves the thread at its last checkpoint
\* (mutation: the state a failing node had already changed is checkpointed)
Commit_checkpoints_failure(node, result) ==
  \E res \in {result} :
  /\ IF res.raised
     THEN /\ call' = [call EXCEPT !.pc = "return", !.outcome = "error", !.ran = @ + 1]
          /\ checkpoint' = [checkpoint EXCEPT ![call.sid].values = res.state]
          /\ UNCHANGED nodeRuns
     ELSE \E written \in {Channels(variant, res.state)} :
          \E nxt \in {workflow(variant, node, written)} :
             /\ Counted(node)
             /\ checkpoint' = [checkpoint EXCEPT ![call.sid] =
                  [values |-> written, next |-> nxt, interrupted |-> FALSE]]
             /\ call' = [call EXCEPT !.steps = @ + 1, !.ran = @ + 1,
                           !.pc = IF nxt = END THEN "return" ELSE "graph",
                           !.outcome = IF nxt = END THEN "values" ELSE "running"]
  /\ UNCHANGED <<variant, probe, GAME_SESSIONS, FINAL_HTML_STORE, ncalls, nfeedbacks>>
Commit(node, result) ==
  \E res \in {result} :
  /\ IF res.raised
     THEN /\ call' = [call EXCEPT !.pc = "return", !.outcome = "error", !.ran = @ + 1]
          /\ UNCHANGED <<checkpoint, nodeRuns>>
     ELSE \E written \in {Channels(variant, res.state)} :
          \E nxt \in {workflow(variant, node, written)} :
             /\ Counted(node)
             /\ checkpoint' = [checkpoint EXCEPT ![call.sid] =
                  [values |-> written, next |-> nxt, interrupted |-> FALSE]]
             /\ call' = [call EXCEPT !.steps = @ + 1, !.ran = @ + 1,
                           !.pc = IF nxt = END THEN "return" ELSE "graph",
                           !.outcome = IF nxt = END THEN "values" ELSE "running"]
  /\ UNCHANGED <<variant, probe, GAME_SESSIONS, FINAL_HTML_STORE, ncalls, nfeedbacks>>

GraphRecursionError ==
  /\ call.pc = "graph"
  /\ call.steps >= MaxSuperSteps
  /\ call' = [call EXCEPT !.pc = "return", !.outcome = "recursion"]
  /\ UNCHANGED <<variant, probe, checkpoint, GAME_SESSIONS, FINAL_HTML_STORE, ncalls,
                 nfeedbacks, nodeRuns, reviewLog>>

Step_intent_analysis ==
  /\ AtNode("intent_analysis")
  /\ \E b \in Backends(IntentTexts) : Commit("intent_analysis", intent_analysis(Values, b))
  /\ UNCHANGED reviewLog

Step_collect_user_idea ==
  /\ AtNode("collect_user_idea")
  /\ Commit("collect_user_idea",
       CASE variant = "agent" -> collect_user_idea_agent(Values)
         [] variant = "agent__" -> collect_user_idea_agent__(Values)
         [] OTHER -> collect_user_idea_html_agent(Values))
  /\ UNCHANGED reviewLog

Step_generate_questions ==
  /\ AtNode("generate_questions")
  /\ \E b \in Backends(QuestionTexts) :
       Commit("generate_questions",
         CASE variant = "agent" -> generate_questions_agent(Values, b)
           [] variant = "agent__" -> generate_questions_agent__(Values, b)
           [] OTHER -> generate_questions_html_agent(Values))
  /\ UNCHANGED reviewLog

\* interrupt(payload): suspends unless this run carries a reply for it
Step_collect_user_answers ==
  /\ AtNode("collect_user_answers")
  /\ IF call.kind = "resume"
     THEN Commit("collect_user_answers", collect_user_answers(Values, call.reply))
     ELSE /\ checkpoint' = [checkpoint EXCEPT ![call.sid].interrupted = TRUE]
          /\ UNCHANGED nodeRuns
          /\ call' = [call EXCEPT !.pc = "return", !.outcome = "interrupt",
                                  !.ran = @ + 1, !.payload = InterruptPayload(variant, Values)]
          /\ UNCHANGED <<variant, probe, GAME_SESSIONS, FINAL_HTML_STORE, ncalls, nfeedbacks>>
  /\ UNCHANGED reviewLog

Step_validate_inputs ==
  /\ AtNode("validate_inputs")
  /\ Commit("validate_inputs", validate_inputs(Values))
  /\ UNCHANGED reviewLog

Step_identify_game_template ==
  /\ AtNode("identify_game_template")
  /\ \E b \in Backends(TemplateTexts(variant)) :
       Commit("identify_game_template",
         IF variant = "agent__" THEN identify_game_template_agent__(Values, b)
         ELSE identify_game_template_html_agent(Values, b))
  /\ UNCHANGED reviewLog

Step_load_template_from_library ==
  /\ AtNode("load_template_from_library")
  /\ Commit("load_template_from_library",
       IF variant = "agent__" THEN load_template_from_library_agent__(Values)
       ELSE load_template_from_library_html_agent(Values))
  /\ UNCHANGED reviewLog

Step_suggest_visual_feature_changes ==
  /\ AtNode("suggest_visual_feature_changes")
  /\ \E b \in Backends(ChangesTexts(variant)) :
       Commit("suggest_visual_feature_changes",
         IF variant = "agent__" THEN suggest_visual_feature_changes_agent__(Values, b)
         ELSE suggest_visual_feature_changes_html_agent(Values, b))
  /\ UNCHANGED reviewLog

Step_apply_changes_to_template ==
  /\ AtNode("apply_changes_to_template")
  /\ \E b \in Backends(CodeTexts) :
       Commit("apply_changes_to_template",
         IF variant = "agent__" THEN apply_changes_to_template_agent__(Values, b)
         ELSE apply_changes_to_template_html_agent(Values, b))
  /\ UNCHANGED reviewLog

Step_design_game_blueprint ==
  /\ AtNode("design_game_blueprint")
  /\ \E b \in Backends(DesignTexts) :
       Commit("design_game_blueprint", design_game_blueprint(Values, b))
  /\ UNCHANGED reviewLog

Step_engine_decision ==
  /\ AtNode("engine_decision")
  /\ \E b \in Backends(EngineTexts) : Commit("engine_decision", engine_decision(Values, b))
  /\ UNCHANGED reviewLog

Step_build_code_prompt ==
  /\ AtNode("build_code_prompt")
  /\ Commit("build_code_prompt", build_code_prompt(Values))
  /\ UNCHANGED reviewLog

Step_generate_game_code ==
  /\ AtNode("generate_game_code")
  /\ \E b \in Backends(CodeTexts) : Commit("generate_game_code", generate_game_code(Values, b))
  /\ UNCHANGED reviewLog

StatusOf(st) == DictGet(Get(st, "review_notes", EmptyJsonDict), "status", "absent")
\* "none": no review yet; "fail": every review so far stored status "fail"
Logged(log, status) == IF status = "fail" /\ log \in {"none", "fail"} THEN "fail" ELSE "other"

Step_review_code ==
  /\ AtNode("review_code")
  /\ \E b \in Backends(ReviewTexts) :
       \E res \in {CASE variant = "agent" -> review_code_agent(Values, b)
                      [] variant = "agent__" -> review_code_agent__(Values, b)
                      [] OTHER -> review_code_html_agent(Values, b)} :
          /\ Commit("review_code", res)
          /\ reviewLog' = IF res.raised THEN reviewLog
                          ELSE [reviewLog EXCEPT ![call.sid] = Logged(@, StatusOf(res.state))]

Step_fix_game_code ==
  /\ AtNode("fix_game_code")
  /\ \E b \in Backends(CodeTexts) :
       Commit("fix_game_code",
         CASE variant = "agent" -> fix_game_code_agent(Values, b)
           [] variant = "agent__" -> fix_game_code_agent__(Values, b)
           [] OTHER -> fix_game_code_html_agent(Values, b))
  /\ UNCHANGED reviewLog

Step_finalize_output ==
  /\ AtNode("finalize_output")
  /\ Commit("finalize_output",
       CASE variant = "agent" -> finalize_output_agent(Values)
         [] variant = "agent__" -> finalize_output_agent__(Values)
         [] OTHER -> finalize_output_html_agent(Values))
  /\ UNCHANGED reviewLog


(***************************************************************************)
(* main.py: what the handlers do once ainvoke has returned or raised.      *)
(***************************************************************************)
\* what ainvoke returns: the values, plus "__interrupt__" when suspended
InvokeResult ==
  IF call.outcome = "interrupt"
  THEN Put(Values, "__interrupt__", call.payload)
  ELSE Values

ErrorResponse(status) == [type |-> "error", status |-> status]
InterruptResponse(sid, data) ==
  [type |-> "interrupt", session_id |-> sid, message |-> data.message,
   questions |-> data.questions]
\* result.get("final_response", {}).get("html", "")
ResultHtml(result) ==
  IF Has(result, "final_response") THEN result["final_response"].html ELSE <<>>
SuccessResponse(sid, result) ==
  [type |-> "success", session_id |-> sid, html |-> ResultHtml(result)]
Finished(resp) == [call EXCEPT !.pc = "idle", !.resp = resp]

StartReturn ==
  /\ call.kind = "start"
  /\ call.pc = "return"
  /\ \E result \in {InvokeResult} : \E html \in {ResultHtml(result)} :
        IF call.outcome \in {"error", "recursion"}
        THEN /\ call' = Finished(ErrorResponse(500))
             /\ UNCHANGED <<GAME_SESSIONS, FINAL_HTML_STORE>>
        ELSE /\ GAME_SESSIONS' = Store(GAME_SESSIONS, call.sid, result)
             /\ IF Has(result, "__interrupt__")
                THEN /\ call' = Finished(InterruptResponse(call.sid, result["__interrupt__"]))
                     /\ UNCHANGED FINAL_HTML_STORE
                ELSE /\ FINAL_HTML_STORE' =
                          IF html # <<>> THEN Store(FINAL_HTML_STORE, call.sid, html)
                          ELSE FINAL_HTML_STORE
                     /\ call' = Finished(SuccessResponse(call.sid, result))
  /\ UNCHANGED <<variant, probe, checkpoint, ncalls, nfeedbacks, nodeRuns, reviewLog>>


\* /api/resume up to the await: Command(resume=answers) on the thread.  A
\* thread whose cursor is END has no task to run and returns its values.
\* (mutation: a resume that re-enters the graph at its entry point)
ResumeGame_from_entry(sid, answers) ==
  /\ Idle
  /\ ncalls < MaxCalls
  /\ sid \in DOMAIN GAME_SESSIONS
  /\ checkpoint' = [checkpoint EXCEPT ![sid].next = EntryPoint(variant)]
  /\ call' = [IdleCall EXCEPT !.kind = "resume", !.sid = sid, !.reply = answers,
                !.entry = checkpoint[sid].next, !.pc = "graph", !.outcome = "running"]
  /\ ncalls' = ncalls + 1
  /\ UNCHANGED <<variant, probe, GAME_SESSIONS, FINAL_HTML_STORE, nfeedbacks, nodeRuns, reviewLog>>
ResumeGame(sid, answers) ==
  /\ Idle
  /\ ncalls < MaxCalls
  /\ sid \in DOMAIN GAME_SESSIONS
  /\ LET done == checkpoint[sid].next = END
     IN call' = [IdleCall EXCEPT !.kind = "resume", !.sid = sid, !.reply = answers,
                   !.entry = checkpoint[sid].next,
                   !.pc = IF done THEN "return" ELSE "graph",
                   !.outcome = IF done THEN "values" ELSE "running"]
  /\ ncalls' = ncalls + 1
  /\ UNCHANGED <<variant, probe, checkpoint, GAME_SESSIONS, FINAL_HTML_STORE, nfeedbacks,
                 nodeRuns, reviewLog>>

ResumeReturn ==
  /\ call.kind = "resume"
  /\ call.pc = "return"
  /\ \E result \in {InvokeResult} : \E html \in {ResultHtml(result)} :
        IF call.outcome \in {"error", "recursion"}
        THEN /\ call' = Finished(ErrorResponse(500))
             /\ UNCHANGED <<GAME_SESSIONS, FINAL_HTML_STORE>>
        ELSE IF Has(result, "__interrupt__")
        THEN /\ call' = Finished(InterruptResponse(call.sid, result["__interrupt__"]))
             /\ UNCHANGED <<GAME_SESSIONS, FINAL_HTML_STORE>>
        ELSE /\ FINAL_HTML_STORE' =
                  IF html # <<>> THEN Store(FINAL_HTML_STORE, call.sid, html)
                  ELSE FINAL_HTML_STORE
             /\ GAME_SESSIONS' = Store(GAME_SESSIONS, call.sid, result)
             /\ call' = Finished(SuccessResponse(call.sid, result))
  /\ UNCHANGED <<variant, probe, checkpoint, ncalls, nfeedbacks, nodeRuns, reviewLog>>

(***************************************************************************)
(* main.py: /api/feedback.  The handler calls the node functions directly, *)
(* on a local copy of the stored state.                                    *)
(***************************************************************************)
\* which stored field holds the code, and the stored dict after the lookup
\* (the lookup itself writes generated_code into the stored dict)
\* (mutation: a lookup that takes the code for granted)
CodeField_assumed(prev) == "generated_code"
CodeField(prev) ==
  IF Get(prev, "generated_code", <<>>) # <<>> THEN "generated_code"
  ELSE IF Get(prev, "final_code", <<>>) # <<>> THEN "final_code"
  ELSE IF Has(prev, "final_response") THEN "final_response.html"
  ELSE "None"
AfterCodeLookup(prev) ==
  CASE CodeField(prev) = "final_code" -> Put(prev, "generated_code", prev["final_code"])
    [] CodeField(prev) = "final_response.html" ->
         Put(prev, "generated_code", prev["final_response"].html)
    [] OTHER -> prev
\* state = {**previous_state, "user_feedback": ..., ...}
\* (mutation: a state built from the request and the code alone)
FeedbackState_without_previous(prev, feedback) ==
  [user_feedback |-> feedback, feedback_iteration |-> 1, fix_iteration |-> 0,
   feedback_history |-> <<[iteration |-> 1, feedback |-> feedback]>>,
   generated_code |-> prev["generated_code"]]
FeedbackState(prev, feedback) ==
  LET it == Get(prev, "feedback_iteration", 0) + 1
      s1 == Put(prev, "user_feedback", feedback)
      s2 == Put(s1, "feedback_iteration", it)
      s3 == Put(s2, "fix_iteration", 0)
  IN Put(s3, "feedback_history",
         Append(Get(prev, "feedback_history", <<>>),
                [iteration |-> it, feedback |-> feedback]))

\* /api/feedback up to the first node call
\* (mutation: an unknown session is given an empty stored state)
FeedbackEndpoint_opens_session(sid, feedback) ==
  /\ Idle
  /\ ncalls < MaxCalls
  /\ nfeedbacks < MaxFeedbacks
  /\ variant # "agent"
  /\ ncalls' = ncalls + 1
  /\ nfeedbacks' = nfeedbacks + 1
  /\ LET fresh == [IdleCall EXCEPT !.kind = "feedback", !.sid = sid]
     IN IF sid \notin DOMAIN GAME_SESSIONS
        THEN /\ call' = [fresh EXCEPT !.resp = ErrorResponse(404)]
             /\ GAME_SESSIONS' = Store(GAME_SESSIONS, sid, EmptyDict)
        ELSE LET prev == AfterCodeLookup(GAME_SESSIONS[sid])
                 known == [fresh EXCEPT !.stored = GAME_SESSIONS[sid]]
             IN /\ GAME_SESSIONS' = [GAME_SESSIONS EXCEPT ![sid] = prev]
                /\ IF CodeField(GAME_SESSIONS[sid]) = "None"
                   THEN call' = [known EXCEPT !.resp = ErrorResponse(400)]
                   ELSE call' = [known EXCEPT !.pc = "fb_apply",
                                   !.state = FeedbackState(prev, feedback)]
  /\ UNCHANGED <<variant, probe, checkpoint, FINAL_HTML_STORE, nodeRuns, reviewLog>>
FeedbackEndpoint(sid, feedback) ==
  /\ Idle
  /\ ncalls < MaxCalls
  /\ nfeedbacks < MaxFeedbacks
  /\ variant # "agent"
  /\ ncalls' = ncalls + 1
  /\ nfeedbacks' = nfeedbacks + 1
  /\ LET fresh == [IdleCall EXCEPT !.kind = "feedback", !.sid = sid]
     IN IF sid \notin DOMAIN GAME_SESSIONS
        THEN /\ call' = [fresh EXCEPT !.resp = ErrorResponse(404)]
             /\ UNCHANGED GAME_SESSIONS
        ELSE LET prev == AfterCodeLookup(GAME_SESSIONS[sid])
                 known == [fresh EXCEPT !.stored = GAME_SESSIONS[sid]]
             IN /\ GAME_SESSIONS' = [GAME_SESSIONS EXCEPT ![sid] = prev]
                /\ IF CodeField(GAME_SESSIONS[sid]) = "None"
                   THEN call' = [known EXCEPT !.resp = ErrorResponse(400)]
                   ELSE call' = [known EXCEPT !.pc = "fb_apply",
                                   !.state = FeedbackState(prev, feedback)]
  /\ UNCHANGED <<variant, probe, checkpoint, FINAL_HTML_STORE, nodeRuns, reviewLog>>

FeedbackStep(result, pc) ==
  \E res \in {result} :
  /\ IF res.raised
     THEN call' = [call EXCEPT !.pc = "idle", !.ran = @ + 1, !.resp = ErrorResponse(500)]
     ELSE call' = [call EXCEPT !.pc = pc, !.ran = @ + 1, !.state = res.state]
  /\ UNCHANGED <<variant, probe, checkpoint, GAME_SESSIONS, FINAL_HTML_STORE, ncalls,
                 nfeedbacks, nodeRuns, reviewLog>>

Feedback_apply_feedback_to_code ==
  /\ call.pc = "fb_apply"
  /\ \E b \in Backends(CodeTexts), b2 \in Backends(CodeTexts) :
       FeedbackStep(IF variant = "agent__"
                    THEN apply_feedback_to_code_agent__(call.state, b, b2)
                    ELSE apply_feedback_to_code_html_agent(call.state, b), "fb_review")

Feedback_review_code ==
  /\ call.pc = "fb_review"
  /\ \E b \in Backends(ReviewTexts) :
       FeedbackStep(IF variant = "agent__" THEN review_code_agent__(call.state, b)
                    ELSE review_code_html_agent(call.state, b), "fb_loop")

\* while status == "fail" and fix_iteration < max_fix_rounds
\* (mutation: the loop goes on while the counter is at the ceiling)
FixLoopCondition_one_more(st) ==
  /\ DictGet(Get(st, "review_notes", EmptyJsonDict), "status", NoneValue) = "fail"
  /\ Get(st, "fix_iteration", 0) <= max_fix_rounds
FixLoopCondition(st) ==
  /\ DictGet(Get(st, "review_notes", EmptyJsonDict), "status", NoneValue) = "fail"
  /\ Get(st, "fix_iteration", 0) < max_fix_rounds

Feedback_fix_game_code ==
  /\ call.pc = "fb_loop"
  /\ FixLoopCondition(call.state)
  /\ \E b \in Backends(CodeTexts) :
       FeedbackStep(IF variant = "agent__" THEN fix_game_code_agent__(call.state, b)
                    ELSE fix_game_code_html_agent(call.state, b), "fb_review")

Feedback_finalize_output ==
  /\ call.pc = "fb_loop"
  /\ ~FixLoopCondition(call.state)
  /\ \E res \in {IF variant = "agent__" THEN finalize_output_agent__(call.state)
                  ELSE finalize_output_html_agent(call.state)} :
        /\ GAME_SESSIONS' = [GAME_SESSIONS EXCEPT ![call.sid] = res.state]
        /\ call' = [call EXCEPT !.pc = "idle", !.ran = @ + 1, !.state = res.state,
                      !.resp = [type |-> "success", session_id |-> call.sid,
                                html |-> ResultHtml(res.state),
                                feedback_iteration |-> Get(res.state, "feedback_iteration", 1)]]
  /\ UNCHANGED <<variant, probe, checkpoint, FINAL_HTML_STORE, ncalls, nfeedbacks, nodeRuns, reviewLog>>

Next ==
  \/ \E p \in Prompts(variant) : StartGame(p)
  \/ \E sid \in Sessions, a \in Answers(variant) : ResumeGame(sid, a)
  \/ \E sid \in Sessions, f \in Feedbacks : FeedbackEndpoint(sid, f)
  \/ StartReturn
  \/ ResumeReturn
  \/ GraphRecursionError
  \/ Step_intent_analysis
  \/ Step_collect_user_idea
  \/ Step_generate_questions
  \/ Step_collect_user_answers
  \/ Step_validate_inputs
  \/ Step_identify_game_template
  \/ Step_load_template_from_library
  \/ Step_suggest_visual_feature_changes
  \/ Step_apply_changes_to_template
  \/ Step_design_game_blueprint
  \/ Step_engine_decision
  \/ Step_build_code_prompt
  \/ Step_generate_game_code
  \/ Step_review_code
  \/ Step_fix_game_code
  \/ Step_finalize_output
  \/ Feedback_apply_feedback_to_code
  \/ Feedback_review_code
  \/ Feedback_fix_game_code
  \/ Feedback_finalize_output

Spec == Init /\ [][Next]_vars


\* The two graph endpoints alone.  The server keeps serving the call in
\* flight (each await in start_game and resume_game completes); callers
\* may stop calling.
RunGraph ==
  \/ StartReturn
  \/ ResumeReturn
  \/ GraphRecursionError
  \/ Step_intent_analysis
  \/ Step_collect_user_idea
  \/ Step_generate_questions
  \/ Step_collect_user_answers
  \/ Step_validate_inputs
  \/ Step_identify_game_template
  \/ Step_load_template_from_library
  \/ Step_suggest_visual_feature_changes
  \/ Step_apply_changes_to_template
  \/ Step_design_game_blueprint
  \/ Step_engine_decision
  \/ Step_build_code_prompt
  \/ Step_generate_game_code
  \/ Step_review_code
  \/ Step_fix_game_code
  \/ Step_finalize_output
GraphNext ==
  \/ \E p \in Prompts(variant) : StartGame(p)
  \/ \E sid \in Sessions, a \in Answers(variant) : ResumeGame(sid, a)
  \/ RunGraph

FairSpec == Init /\ [][GraphNext]_vars /\ WF_vars(RunGraph)

(***************************************************************************)
(* llm_invoke_text (agent__.py, html_agent.py) taken on its own: one call  *)
(* with retries = n against a backend whose every invocation either raises *)
(* or answers.                                                             *)
(***************************************************************************)
InvokeOutcomes == {InvokeRaises, InvokeAnswers(<<"t1">>), InvokeAnswers(<<" ", "t2">>)}
NoResult == [raised |-> FALSE, text |-> <<>>, invoked |-> <<>>]
Quiet ==
  /\ checkpoint = EmptyDict
  /\ GAME_SESSIONS = EmptyDict
  /\ FINAL_HTML_STORE = EmptyDict
  /\ call = IdleCall
  /\ ncalls = 0
  /\ nfeedbacks = 0
  /\ nodeRuns = [s \in Sessions |-> [n \in NodeNames |-> 0]]
  /\ reviewLog = [s \in Sessions |-> "none"]
ServerUnchanged ==
  UNCHANGED <<variant, checkpoint, GAME_SESSIONS, FINAL_HTML_STORE, call, ncalls,
              nfeedbacks, nodeRuns, reviewLog>>

RetryInit ==
  /\ variant \in {"agent__", "html_agent"}
  /\ Quiet
  /\ \E n \in 1..MaxRetries : \E o \in [1..n -> InvokeOutcomes] :
       probe = [fn |-> "llm_invoke_text", retries |-> n, outcomes |-> o,
                done |-> FALSE, result |-> NoResult]

LLMInvokeText ==
  /\ probe.fn = "llm_invoke_text"
  /\ ~probe.done
  /\ probe' = [probe EXCEPT !.done = TRUE,
                 !.result = llm_invoke_text_retrying(probe.outcomes, probe.retries)]
  /\ ServerUnchanged

RetryNext == LLMInvokeText
RetrySpec == RetryInit /\ [][RetryNext]_vars

(***************************************************************************)
(* One node function taken on its own: the node is applied to a state the  *)
(* pipeline hands it, against a backend of any behaviour.                  *)
(***************************************************************************)
\* replies without a brace, a bracket or a JSON scalar
NoJsonTexts == {<<"w">>, <<"w", " ", "w">>, <<"fence", "w", "fence">>, <<" ">>}
VerifyTexts == {<<"{", "implemented=false", "}">>, <<"{", "implemented=true", "}">>}
Good(t) == Backend(0, t)

\* the node function of each variant
Node(v, node, st, b, b1, b2) ==
  CASE node = "intent_analysis" -> intent_analysis(st, b)
    [] node = "collect_user_idea" ->
         (CASE v = "agent" -> collect_user_idea_agent(st)
            [] v = "agent__" -> collect_user_idea_agent__(st)
            [] OTHER -> collect_user_idea_html_agent(st))
    [] node = "generate_questions" ->
         (CASE v = "agent" -> generate_questions_agent(st, b)
            [] v = "agent__" -> generate_questions_agent__(st, b)
            [] OTHER -> generate_questions_html_agent(st))
    [] node = "collect_user_answers" -> collect_user_answers(st, <<"a1">>)
    [] node = "validate_inputs" -> validate_inputs(st)
    [] node = "identify_game_template" ->
         (IF v = "agent__" THEN identify_game_template_agent__(st, b)
          ELSE identify_game_template_html_agent(st, b))
    [] node = "load_template_from_library" ->
         (IF v = "agent__" THEN load_template_from_library_agent__(st)
          ELSE load_template_from_library_html_agent(st))
    [] node = "suggest_visual_feature_changes" ->
         (IF v = "agent__" THEN suggest_visual_feature_changes_agent__(st, b)
          ELSE suggest_visual_feature_changes_html_agent(st, b))
    [] node = "apply_changes_to_template" ->
         (IF v = "agent__" THEN apply_changes_to_template_agent__(st, b)
          ELSE apply_changes_to_template_html_agent(st, b))
    [] node = "design_game_blueprint" -> design_game_blueprint(st, b)
    [] node = "engine_decision" -> engine_decision(st, b)
    [] node = "build_code_prompt" -> build_code_prompt(st)
    [] node = "generate_game_code" -> generate_game_code(st, b)
    [] node = "review_code" ->
         (CASE v = "agent" -> review_code_agent(st, b)
            [] v = "agent__" -> review_code_agent__(st, b)
            [] OTHER -> review_code_html_agent(st, b))
    [] node = "fix_game_code" ->
         (CASE v = "agent" -> fix_game_code_agent(st, b)
            [] v = "agent__" -> fix_game_code_agent__(st, b)
            [] OTHER -> fix_game_code_html_agent(st, b))
    [] node = "finalize_output" ->
         (CASE v = "agent" -> finalize_output_agent(st)
            [] v = "agent__" -> finalize_output_agent__(st)
            [] OTHER -> finalize_output_html_agent(st))
    [] node = "feedback_endpoint" -> Returns(FeedbackState(AfterCodeLookup(st), "faster"))
    [] node = "apply_feedback_to_code" ->
         (IF v = "agent__" THEN apply_feedback_to_code_agent__(st, b, b1)
          ELSE apply_feedback_to_code_html_agent(st, b))
    [] OTHER ->
         (IF v = "agent__" THEN verify_feedback_applied_agent__(st, b, b1, b2)
          ELSE verify_feedback_applied_html_agent(st))

\* a session from /api/start to a feedback round, with the reply each
\* generation call gets on the way
Do(node, text) == [node |-> node, text |-> text]
FailReply == <<"{", "status=fail", ",", "issues=x", "}">>
PassReply == <<"{", "status=pass", ",", "issues=none", "}">>
Plans(v) ==
  CASE v = "agent" ->
         {<<Do("intent_analysis", <<"{", "genre=unknown", "}">>),
            Do("collect_user_idea", <<>>),
            Do("generate_questions", <<"[", "{", "q=x", "}", "]">>),
            Do("collect_user_answers", <<>>),
            Do("validate_inputs", <<>>),
            Do("design_game_blueprint", d),
            Do("engine_decision", <<"{", "engine_choice=HTML_CANVAS", "}">>),
            Do("build_code_prompt", <<>>),
            Do("generate_game_code", <<"c1">>),
            Do("review_code", FailReply),
            Do("fix_game_code", <<"c1">>),
            Do("review_code", PassReply),
            Do("finalize_output", <<>>)>> :
          d \in {<<"w">>, <<"w", "sep", "{", "estimated_complexity=high", "}">>}}
    [] v = "agent__" ->
         {<<Do("collect_user_idea", <<>>),
            Do("generate_questions", <<"[", "{", "q=x", "}", "]">>),
            Do("collect_user_answers", <<>>),
            Do("identify_game_template", <<"{", "chosen_template=Platformer", "}">>),
            Do("load_template_from_library", <<>>),
            Do("suggest_visual_feature_changes", <<"{", "visual_changes=none", "}">>),
            Do("apply_changes_to_template", <<"c1">>),
            Do("review_code", FailReply),
            Do("fix_game_code", <<"c1">>),
            Do("review_code", PassReply),
            Do("finalize_output", <<>>),
            Do("feedback_endpoint", <<>>),
            Do("apply_feedback_to_code", <<"c2">>),
            Do("verify_feedback_applied", <<"{", "implemented=true", "}">>)>>}
    [] OTHER ->
         {<<Do("collect_user_idea", <<>>),
            Do("generate_questions", <<>>),
            Do("collect_user_answers", <<>>),
            Do("identify_game_template", <<"{", "template=platformer", "}">>),
            Do("load_template_from_library", <<>>),
            Do("suggest_visual_feature_changes", <<"{", "Changes=none", "}">>),
            Do("apply_changes_to_template", <<"c1">>),
            Do("review_code", FailReply),
            Do("fix_game_code", <<"c1">>),
            Do("review_code", PassReply),
            Do("finalize_output", <<>>),
            Do("feedback_endpoint", <<>>),
            Do("apply_feedback_to_code", <<"c2">>),
            Do("verify_feedback_applied", <<>>)>>}

\* the state after the first k steps of a plan
RECURSIVE StateAfter(_, _, _)
StateAfter(v, plan, k) ==
  IF k = 0
  THEN [session_id |-> 1, user_raw_input |-> <<"maze">>, model_name |-> ModelName]
  ELSE LET st == Node(v, plan[k].node, StateAfter(v, plan, k - 1),
                      Good(plan[k].text), Good(<<"c2">>), Good(<<"c2">>)).state
       IN IF plan[k].node \in NodeNames THEN Channels(v, st) ELSE st

\* the nodes that call llm_invoke_text, and what the backend may answer them
GenerationNodes(v) ==
  CASE v = "agent" ->
         {"intent_analysis", "generate_questions", "design_game_blueprint",
          "engine_decision", "generate_game_code", "review_code", "fix_game_code"}
    [] v = "agent__" ->
         {"generate_questions", "identify_game_template",
          "suggest_visual_feature_changes", "apply_changes_to_template",
          "review_code", "fix_game_code", "apply_feedback_to_code",
          "verify_feedback_applied"}
    [] OTHER ->
         {"identify_game_template", "suggest_visual_feature_changes",
          "apply_changes_to_template", "review_code", "fix_game_code",
          "apply_feedback_to_code"}
Replies(v, node) ==
  CASE node = "intent_analysis" -> IntentTexts
    [] node = "generate_questions" -> QuestionTexts
    [] node = "identify_game_template" -> TemplateTexts(v)
    [] node = "suggest_visual_feature_changes" -> ChangesTexts(v)
    [] node = "design_game_blueprint" -> DesignTexts
    [] node = "engine_decision" -> EngineTexts
    [] node = "review_code" -> ReviewTexts
    [] node = "verify_feedback_applied" -> VerifyTexts
    [] OTHER -> CodeTexts

NodeInit ==
  /\ variant \in Variants
  /\ Quiet
  /\ \E plan \in Plans(variant) : \E k \in 1..Len(plan) :
       /\ plan[k].node \in GenerationNodes(variant)
       /\ \E b \in Backends(Replies(variant, plan[k].node) \cup NoJsonTexts) :
          \E b1 \in {Good(<<"c3">>), Backend(retries, <<"w">>)} :
            probe = [fn |-> "node", node |-> plan[k].node,
                     state |-> StateAfter(variant, plan, k - 1),
                     backend |-> b, backend1 |-> b1, backend2 |-> Good(<<"c2">>),
                     done |-> FALSE, result |-> Returns(EmptyDict)]

RunNode ==
  /\ probe.fn = "node"
  /\ ~probe.done
  /\ probe' = [probe EXCEPT !.done = TRUE,
                 !.result = Node(variant, probe.node, probe.state, probe.backend,
                                 probe.backend1, probe.backend2)]
  /\ ServerUnchanged

NodeNext == RunNode
NodeSpec == NodeInit /\ [][NodeNext]_vars

(***************************************************************************)
(* safe_json_parse on its own: a text made of one JSON object with prose   *)
(* before and after it, where the prose may hold braces and brackets.      *)
(***************************************************************************)
ProseAlphabet == ProseTokens \cup {"{", "}", "[", "]"}
ProseRuns == UNION {[1..n -> ProseAlphabet] : n \in 0..MaxProse}
JsonObjects == {<<"{", "}">>, <<"{", "status=pass", "}">>}

ParseInit ==
  /\ variant \in Variants
  /\ Quiet
  /\ \E before \in ProseRuns, object \in JsonObjects, after \in ProseRuns :
       probe = [fn |-> "safe_json_parse", before |-> before, object |-> object,
                after |-> after, done |-> FALSE, result |-> ParseError]

SafeJsonParse ==
  /\ probe.fn = "safe_json_parse"
  /\ ~probe.done
  /\ probe' = [probe EXCEPT !.done = TRUE,
                 !.result = safe_json_parse(variant, probe.before \o probe.object \o probe.after)]
  /\ ServerUnchanged

ParseNext == SafeJsonParse
ParseSpec == ParseInit /\ [][ParseNext]_vars

\* the same call on a text made of one JSON array with plain prose (no
\* brace, no bracket) around it
JsonArrays ==
  {<<"[", "]">>, <<"[", "5", "]">>, <<"[", "5", ",", "5", "]">>,
   <<"[", "{", "q=x", "}", "]">>,
   <<"[", "{", "q=x", "}", ",", "{", "q=x", "}", "]">>,
   <<"[", "5", ",", "{", "q=x", "}", "]">>}
PlainRuns == UNION {[1..n -> ProseTokens] : n \in 0..MaxProse}
ArrayInit ==
  /\ variant \in Variants
  /\ Quiet
  /\ \E before \in PlainRuns, array \in JsonArrays, after \in PlainRuns :
       probe = [fn |-> "safe_json_parse", before |-> before, object |-> array,
                after |-> after, done |-> FALSE, result |-> ParseError]
ArraySpec == ArrayInit /\ [][ParseNext]_vars

(***************************************************************************)
(* review_branch on its own: a state whose review_notes is absent, None or *)
(* a dict (the declared type of the field), with any status member.        *)
(***************************************************************************)
StatusTokens == {t \in MemberTokens : MemberKey(t) = "status"}
ReviewNotesValues ==
  {<<"null">>, <<"{", "}">>, <<"{", "issues=x", "}">>}
    \cup {<<"{", t, "}">> : t \in StatusTokens}
    \cup {<<"{", t, ",", "issues=x", "}">> : t \in StatusTokens}
BranchStates ==
  {Put(EmptyDict, "fix_iteration", n) : n \in 0..(MAX_FIX_ITERATIONS + 1)}
    \cup {Put(Put(EmptyDict, "fix_iteration", n), "review_notes", rn) :
            n \in 0..(MAX_FIX_ITERATIONS + 1), rn \in ReviewNotesValues}
BranchInit ==
  /\ variant \in Variants
  /\ Quiet
  /\ \E st \in BranchStates :
       probe = [fn |-> "review_branch", state |-> st, done |-> FALSE, result |-> "none"]

RunReviewBranch ==
  /\ probe.fn = "review_branch"
  /\ ~probe.done
  /\ probe' = [probe EXCEPT !.done = TRUE,
                 !.result = CASE variant = "agent" -> review_branch_agent(probe.state)
                              [] variant = "agent__" -> review_branch_agent__(probe.state)
                              [] OTHER -> review_branch_html_agent(probe.state)]
  /\ ServerUnchanged

BranchNext == RunReviewBranch
BranchSpec == BranchInit /\ [][BranchNext]_vars

(***************************************************************************)
(* The compiled graph on its own: a walk that starts at the entry point    *)
(* and follows the edge the graph takes from the node it is at, for any    *)
(* state that node may have returned.                                      *)
(***************************************************************************)
WalkStates ==
  BranchStates \cup {Put(st, "early_completion", TRUE) : st \in BranchStates}
WalkInit ==
  /\ variant \in Variants
  /\ Quiet
  /\ \E st \in WalkStates :
       probe = [fn |-> "walk", at |-> EntryPoint(variant), state |-> st]

FollowEdge ==
  /\ probe.fn = "walk"
  /\ probe.at # END
  /\ \E st \in WalkStates :
       probe' = [probe EXCEPT !.at = workflow(variant, probe.at, probe.state),
                              !.state = st]
  /\ ServerUnchanged

WalkNext == FollowEdge
WalkSpec == WalkInit /\ [][WalkNext]_vars

\* the nodes some sequence of edges leads to from the nodes of S
Edges(v) == {<<n, workflow(v, n, st)>> : n \in Registered(v), st \in WalkStates}
RECURSIVE ReachableFrom(_, _)
ReachableFrom(v, S) ==
  LET further == S \cup {e[2] : e \in {x \in Edges(v) : x[1] \in S}}
  IN IF further = S THEN S ELSE ReachableFrom(v, further)

(***************************************************************************)
(* The feedback endpoint on its own: the server holds one finished session *)
(* (a start and a resume have been served) and from then on receives       *)
(* /api/feedback calls only; ncalls and nfeedbacks count from there.       *)
(***************************************************************************)
PlanEnd(plan) == CHOOSE k \in 1..Len(plan) : plan[k].node = "finalize_output"
RunsIn(plan, node) == Cardinality({k \in 1..PlanEnd(plan) : plan[k].node = node})

FeedbackInit ==
  /\ variant \in {"agent__", "html_agent"}
  /\ \E plan \in Plans(variant) : \E vals \in {StateAfter(variant, plan, PlanEnd(plan))} :
       /\ checkpoint = Store(EmptyDict, 1, [values |-> vals, next |-> END, interrupted |-> FALSE])
       /\ GAME_SESSIONS = Store(EmptyDict, 1, vals)
       /\ FINAL_HTML_STORE = Store(EmptyDict, 1, ResultHtml(vals))
       /\ call = [IdleCall EXCEPT !.kind = "resume", !.sid = 1, !.outcome = "values",
                    !.entry = "collect_user_answers", !.reply = <<"a1">>,
                    !.steps = PlanEnd(plan) - 2, !.ran = PlanEnd(plan) - 2,
                    !.resp = SuccessResponse(1, vals)]
       /\ nodeRuns = [s \in Sessions |-> [n \in NodeNames |->
                        IF s = 1 THEN RunsIn(plan, n) ELSE 0]]
  /\ ncalls = 0
  /\ nfeedbacks = 0
  /\ reviewLog = [s \in Sessions |-> IF s = 1 THEN "other" ELSE "none"]
  /\ probe = NoProbe

FeedbackNext ==
  \/ \E sid \in Sessions, f \in Feedbacks : FeedbackEndpoint(sid, f)
  \/ Feedback_apply_feedback_to_code
  \/ Feedback_review_code
  \/ Feedback_fix_game_code
  \/ Feedback_finalize_output
FeedbackSpec == FeedbackInit /\ [][FeedbackNext]_vars

(***************************************************************************)
(* Requests in flight together.  start_game and resume_game are coroutines *)
(* that await ainvoke, so the event loop interleaves them super-step by    *)
(* super-step; each run of the graph works on the values it loaded and     *)
(* checkpoints them under its thread after every super-step.               *)
(* feedback_endpoint has no await and runs from arrival to response in one *)
(* piece.  The server starts with session 1 suspended at its questions and *)
(* session 2 finished; probe holds the requests.                           *)
(***************************************************************************)
Requests == 1..MaxInFlight
NewRequest ==
  [kind |-> "none", sid |-> 0, pc |-> "new", entry |-> "none", reply |-> <<>>,
   values |-> EmptyDict, next |-> "none", outcome |-> "none", steps |-> 0,
   resp |-> NoResponse]
\* what the backend answers to the generation call of a node
AnswerTo(v, node) ==
  IF node = "review_code" THEN PassReply
  ELSE LET plan == CHOOSE p \in Plans(v) : TRUE
           k == CHOOSE i \in 1..Len(plan) : plan[i].node = node
       IN plan[k].text
AnswersOf(r) == IF r = 1 THEN <<"a1">> ELSE <<"a2">>
\* the values of a finished run of the plan under another session identifier
FinishedAs(v, plan, sid) ==
  Channels(v, Node(v, "finalize_output",
                   Put(StateAfter(v, plan, PlanEnd(plan) - 1), "session_id", sid),
                   Good(<<>>), Good(<<>>), Good(<<>>)).state)
SuspendedAt(plan) == CHOOSE k \in 1..Len(plan) : plan[k].node = "collect_user_answers"

ConcurrentInit ==
  /\ variant \in Variants
  /\ \E plan \in {CHOOSE p \in Plans(variant) : TRUE} :
     \E asked \in {StateAfter(variant, plan, SuspendedAt(plan) - 1)} :
     \E made \in {FinishedAs(variant, plan, 2)} :
       /\ checkpoint =
            Store(Store(EmptyDict, 1, [values |-> asked, next |-> "collect_user_answers",
                                       interrupted |-> TRUE]),
                  2, [values |-> made, next |-> END, interrupted |-> FALSE])
       /\ GAME_SESSIONS =
            Store(Store(EmptyDict, 1,
                        Put(asked, "__interrupt__", InterruptPayload(variant, asked))),
                  2, made)
       /\ FINAL_HTML_STORE = Store(EmptyDict, 2, ResultHtml(made))
  /\ call = IdleCall
  /\ ncalls = 0
  /\ nfeedbacks = 0
  /\ nodeRuns = [s \in Sessions |-> [n \in NodeNames |-> 0]]
  /\ reviewLog = [s \in Sessions |-> "none"]
  /\ probe = [fn |-> "serve", requests |-> [r \in Requests |-> NewRequest]]

Serving(r, request) ==
  /\ probe' = [probe EXCEPT !.requests[r] = request]
  /\ UNCHANGED <<variant, call, ncalls, nfeedbacks, nodeRuns, reviewLog>>
Arrives(r) == probe.fn = "serve" /\ probe.requests[r].pc = "new"

\* /api/start up to the await: a fresh uuid4, the input checkpointed
ConcurrentStart(r) ==
  /\ Arrives(r)
  /\ \E sid \in {Cardinality(DOMAIN checkpoint) + 1} :
     \E state \in {[session_id |-> sid, user_raw_input |-> <<"maze">>,
                    model_name |-> ModelName]} :
       /\ checkpoint' = Store(checkpoint, sid,
            [values |-> Channels(variant, state), next |-> EntryPoint(variant),
             interrupted |-> FALSE])
       /\ Serving(r, [NewRequest EXCEPT !.kind = "start", !.sid = sid, !.pc = "graph",
                        !.entry = EntryPoint(variant), !.outcome = "running",
                        !.values = Channels(variant, state), !.next = EntryPoint(variant)])
  /\ UNCHANGED <<GAME_SESSIONS, FINAL_HTML_STORE>>

\* /api/resume up to the await: the run loads the thread's latest checkpoint
ConcurrentResume(r, sid) ==
  /\ Arrives(r)
  /\ sid \in DOMAIN GAME_SESSIONS
  /\ \E done \in {checkpoint[sid].next = END} :
       Serving(r, [NewRequest EXCEPT !.kind = "resume", !.sid = sid,
                     !.reply = AnswersOf(r), !.entry = checkpoint[sid].next,
                     !.values = checkpoint[sid].values, !.next = checkpoint[sid].next,
                     !.pc = IF done THEN "return" ELSE "graph",
                     !.outcome = IF done THEN "values" ELSE "running"])
  /\ UNCHANGED <<checkpoint, GAME_SESSIONS, FINAL_HTML_STORE>>

\* one super-step of the run of request r
ConcurrentStep(r) ==
  /\ probe.fn = "serve"
  /\ probe.requests[r].pc = "graph"
  /\ \E q \in {probe.requests[r]} :
       IF q.next = "collect_user_answers" /\ q.kind # "resume"
       THEN /\ checkpoint' = [checkpoint EXCEPT ![q.sid].interrupted = TRUE]
            /\ Serving(r, [q EXCEPT !.pc = "return", !.outcome = "interrupt"])
       ELSE \E res \in {IF q.next = "collect_user_answers"
                        THEN collect_user_answers(q.values, q.reply)
                        ELSE Node(variant, q.next, q.values,
                                  Good(AnswerTo(variant, q.next)), Good(<<"c2">>),
                                  Good(<<"c2">>))} :
            IF res.raised
            THEN /\ Serving(r, [q EXCEPT !.pc = "return", !.outcome = "error"])
                 /\ UNCHANGED checkpoint
            ELSE \E written \in {Channels(variant, res.state)} :
                 \E nxt \in {workflow(variant, q.next, written)} :
                   /\ checkpoint' = [checkpoint EXCEPT ![q.sid] =
                        [values |-> written, next |-> nxt, interrupted |-> FALSE]]
                   /\ Serving(r, [q EXCEPT !.values = written, !.next = nxt,
                                    !.steps = @ + 1,
                                    !.pc = IF nxt = END THEN "return" ELSE "graph",
                                    !.outcome = IF nxt = END THEN "values" ELSE "running"])
  /\ UNCHANGED <<GAME_SESSIONS, FINAL_HTML_STORE>>

\* start_game and resume_game once ainvoke has returned or raised
ConcurrentReturn(r) ==
  /\ probe.fn = "serve"
  /\ probe.requests[r].pc = "return"
  /\ \E q \in {probe.requests[r]} :
     \E result \in {IF q.outcome = "interrupt"
                    THEN Put(q.values, "__interrupt__", InterruptPayload(variant, q.values))
                    ELSE q.values} :
     \E html \in {ResultHtml(result)} :
       IF q.outcome = "error"
       THEN /\ Serving(r, [q EXCEPT !.pc = "done", !.resp = ErrorResponse(500)])
            /\ UNCHANGED <<GAME_SESSIONS, FINAL_HTML_STORE>>
       ELSE IF Has(result, "__interrupt__")
       THEN /\ Serving(r, [q EXCEPT !.pc = "done",
                             !.resp = InterruptResponse(q.sid, result["__interrupt__"])])
            /\ GAME_SESSIONS' = IF q.kind = "start" THEN Store(GAME_SESSIONS, q.sid, result)
                                ELSE GAME_SESSIONS
            /\ UNCHANGED FINAL_HTML_STORE
       ELSE /\ Serving(r, [q EXCEPT !.pc = "done", !.resp = SuccessResponse(q.sid, result)])
            /\ GAME_SESSIONS' = Store(GAME_SESSIONS, q.sid, result)
            /\ FINAL_HTML_STORE' = IF html # <<>> THEN Store(FINAL_HTML_STORE, q.sid, html)
                                   ELSE FINAL_HTML_STORE
  /\ UNCHANGED checkpoint

\* /api/feedback from arrival to response, with a review that passes
\* (mutation: a round that starts its counter and its history afresh)
FeedbackRound_forgets_rounds(v, prev, feedback) ==
  LET state == Put(Put(FeedbackState(prev, feedback), "feedback_iteration", 1),
                   "feedback_history", <<[iteration |-> 1, feedback |-> feedback]>>)
      applied == Node(v, "apply_feedback_to_code", state, Good(<<"c2">>), Good(<<"c2">>),
                      Good(<<"c2">>)).state
      reviewed == Node(v, "review_code", applied, Good(PassReply), Good(<<"c2">>),
                       Good(<<"c2">>)).state
  IN Node(v, "finalize_output", reviewed, Good(<<>>), Good(<<>>), Good(<<>>)).state
FeedbackRound(v, prev, feedback) ==
  LET state == FeedbackState(prev, feedback)
      applied == Node(v, "apply_feedback_to_code", state, Good(<<"c2">>), Good(<<"c2">>),
                      Good(<<"c2">>)).state
      reviewed == Node(v, "review_code", applied, Good(PassReply), Good(<<"c2">>),
                       Good(<<"c2">>)).state
  IN Node(v, "finalize_output", reviewed, Good(<<>>), Good(<<>>), Good(<<>>)).state
ConcurrentFeedback(r, sid) ==
  /\ Arrives(r)
  /\ variant # "agent"
  /\ \E fresh \in {[NewRequest EXCEPT !.kind = "feedback", !.sid = sid, !.pc = "done"]} :
       IF sid \notin DOMAIN GAME_SESSIONS
       THEN /\ Serving(r, [fresh EXCEPT !.resp = ErrorResponse(404)])
            /\ UNCHANGED GAME_SESSIONS
       ELSE IF CodeField(GAME_SESSIONS[sid]) = "None"
       THEN /\ Serving(r, [fresh EXCEPT !.resp = ErrorResponse(400)])
            /\ UNCHANGED GAME_SESSIONS
       ELSE \E state \in {FeedbackRound(variant, AfterCodeLookup(GAME_SESSIONS[sid]),
                                        "faster")} :
            /\ GAME_SESSIONS' = [GAME_SESSIONS EXCEPT ![sid] = state]
            /\ Serving(r, [fresh EXCEPT !.values = state,
                             !.resp = [type |-> "success", session_id |-> sid,
                                       html |-> ResultHtml(state),
                                       feedback_iteration |->
                                         Get(state, "feedback_iteration", 1)]])
  /\ UNCHANGED <<checkpoint, FINAL_HTML_STORE>>

ConcurrentNext ==
  \E r \in Requests :
    \/ ConcurrentStart(r)
    \/ \E sid \in {1, 2} : ConcurrentResume(r, sid)
    \/ \E sid \in {1, 2, 3} : ConcurrentFeedback(r, sid)
    \/ ConcurrentStep(r)
    \/ ConcurrentReturn(r)
ConcurrentSpec == ConcurrentInit /\ [][ConcurrentNext]_vars

(***************************************************************************)
(* Properties.                                                             *)
(***************************************************************************)
Capped == {"agent__", "html_agent"}
Started == DOMAIN checkpoint
Cursor(s) == checkpoint[s].next
FixIteration(s) == Get(checkpoint[s].values, "fix_iteration", 0)
InGraphRun(s) == call.pc = "graph" /\ call.sid = s
\* the start or resume serving s has stopped running the graph
RunEnded(s) == call.kind \in {"start", "resume"} /\ call.sid = s /\ call.pc \in {"return", "idle"}

\* C1: in agent__.py and html_agent.py a run that is in the review/fix
\* cycle ends at END through finalize_output, unless a generation call
\* fails or some review stores a status other than "fail"
FailingReviewTerminates ==
  \A s \in Sessions :
    (variant \in Capped /\ s \in Started /\ InGraphRun(s)
       /\ Cursor(s) \in {"review_code", "fix_game_code"})
      ~> /\ s \in Started
         /\ \/ Cursor(s) = END /\ nodeRuns[s]["finalize_output"] >= 1
            \/ call.outcome = "error"
            \/ reviewLog[s] = "other"
FailingReviewFinalized ==
  \E s \in Started :
    /\ variant \in Capped /\ reviewLog[s] = "fail" /\ Cursor(s) = END
    /\ nodeRuns[s]["review_code"] >= 2 /\ nodeRuns[s]["finalize_output"] = 1


\* C2: whenever fix_branch is evaluated (fix_game_code has just returned) with
\* fix_iteration >= MAX_FIX_ITERATIONS, the cursor goes to finalize_output
FixBranchFinalizesAtCeiling ==
  [][\A s \in Started :
       (/\ variant \in Capped
        /\ nodeRuns'[s]["fix_game_code"] > nodeRuns[s]["fix_game_code"]
        /\ Get(checkpoint'[s].values, "fix_iteration", 0) >= MAX_FIX_ITERATIONS)
       => checkpoint'[s].next = "finalize_output"]_vars

\* C3: a finished run in which every review stored "fail" executed
\* fix_game_code exactly MAX_FIX_ITERATIONS times, and both fix_iteration and
\* final_response.fix_iterations equal MAX_FIX_ITERATIONS
AlwaysFailingRunFixesTwice ==
  \A s \in Started :
    (variant \in Capped /\ Cursor(s) = END /\ reviewLog[s] = "fail")
      => /\ nodeRuns[s]["fix_game_code"] = MAX_FIX_ITERATIONS
         /\ FixIteration(s) = MAX_FIX_ITERATIONS
         /\ checkpoint[s].values["final_response"].fix_iterations = MAX_FIX_ITERATIONS

\* C4: in the graph runs of agent__.py and html_agent.py fix_iteration is
\* absent or 0 before the first repair, equals the number of fix_game_code
\* executions that returned, and never exceeds MAX_FIX_ITERATIONS + 1
FixIterationCountsFixes ==
  \A s \in Started :
    variant \in Capped
      => /\ FixIteration(s) = nodeRuns[s]["fix_game_code"]
         /\ FixIteration(s) <= MAX_FIX_ITERATIONS + 1
FixIterationAtItsMaximum ==
  \E s \in Started :
    /\ variant \in Capped
    /\ nodeRuns[s]["fix_game_code"] = MAX_FIX_ITERATIONS + 1
    /\ FixIteration(s) = MAX_FIX_ITERATIONS + 1

\* C5: in agent.py a run in which every review stored "fail" and no step
\* raised ends at END through finalize_output
AgentFailingRunFinalizes ==
  \A s \in Started :
    (variant = "agent" /\ RunEnded(s) /\ reviewLog[s] = "fail" /\ call.outcome # "error")
      => Cursor(s) = END /\ nodeRuns[s]["finalize_output"] >= 1

\* C6: a resume of a session whose run already reached END executes no
\* step and is answered with an error, never with a success result
ResumeOfFinishedRunIsRejected ==
  (call.kind = "resume" /\ call.entry = END /\ Idle)
    => call.ran = 0 /\ call.resp.type = "error"

\* C7: collect_user_idea and generate_questions execute at most once per
\* session and exactly once by the time a resume is accepted; once the run
\* is past collect_user_answers the state holds answers, and they are the
\* reply of the resume that was suspended there
PreSuspensionNodes == {"intent_analysis", "collect_user_idea", "generate_questions"}
ResumeContinuesAfterSuspension ==
  \A s \in Started :
    /\ \A n \in PreSuspensionNodes \cup {"collect_user_answers"} : nodeRuns[s][n] <= 1
    /\ (call.kind = "resume" /\ call.sid = s)
         => /\ nodeRuns[s]["collect_user_idea"] = 1
            /\ nodeRuns[s]["generate_questions"] = 1
    /\ Cursor(s) \notin PreSuspensionNodes \cup {"collect_user_answers"}
         => /\ nodeRuns[s]["collect_user_answers"] = 1
            /\ Has(checkpoint[s].values, "answers")
    /\ (/\ call.kind = "resume" /\ call.sid = s
        /\ call.entry = "collect_user_answers" /\ call.ran >= 1)
         => checkpoint[s].values["answers"] = call.reply
ResumedPastTemplateChoice ==
  \E s \in Started :
    /\ call.kind = "resume" /\ call.sid = s /\ call.entry = "collect_user_answers"
    /\ nodeRuns[s]["identify_game_template"] = 1
    /\ nodeRuns[s]["generate_questions"] = 1
    /\ checkpoint[s].values["answers"] = <<"a1">>

\* C8: a node of a suspended session executes only in a resume of that
\* session; a resume has executed no step until it consumes the suspension,
\* and a feedback call on a suspended session executes none of its steps
\* and is answered with an error
Suspended(s) == s \in Started /\ checkpoint[s].interrupted
NoStepWhileSuspended ==
  \A s \in Started :
    (Suspended(s) /\ call.sid = s /\ call.kind \in {"resume", "feedback"})
      => /\ call.ran = 0
         /\ call.kind = "feedback" => Idle /\ call.resp.type = "error"
SuspendedRunsOnlyThroughResume ==
  /\ []NoStepWhileSuspended
  /\ [][\A s \in Started :
          (Suspended(s) /\ nodeRuns'[s] # nodeRuns[s])
            => call.kind = "resume" /\ call.sid = s]_vars
FeedbackOnSuspendedRejected ==
  /\ call.kind = "feedback" /\ Suspended(call.sid)
  /\ Idle /\ call.resp = ErrorResponse(400) /\ call.ran = 0

\* C9: a start none of whose steps raised is answered with an interrupt:
\* the run stands at collect_user_answers, and the response carries the
\* session's id, the message and the questions of the state, which are a list
StartAnsweredWithQuestionList ==
  (call.kind = "start" /\ Idle /\ call.outcome \notin {"error", "recursion"})
    => /\ call.resp.type = "interrupt"
       /\ Cursor(call.sid) = "collect_user_answers"
       /\ Suspended(call.sid)
       /\ call.resp.session_id = call.sid
       /\ call.resp.message = InterruptMessage(variant)
       /\ call.resp.questions = checkpoint[call.sid].values["questions"]
       /\ IsList(call.resp.questions)

\* C10: the resume that consumes the suspension, when no generation call
\* of its run failed, is answered with success after finalize_output ran,
\* and the html of the answer is not empty
NonGenerationNodes == {"load_template_from_library", "validate_inputs"}
GenerationFailed(s) == call.outcome = "error" /\ Cursor(s) \notin NonGenerationNodes
ResumeCompletesWithHtml ==
  (/\ variant \in Capped
   /\ call.kind = "resume" /\ Idle /\ call.entry = "collect_user_answers"
   /\ ~GenerationFailed(call.sid))
    => /\ call.resp.type = "success"
       /\ nodeRuns[call.sid]["finalize_output"] >= 1
       /\ call.resp.html # <<>>

\* C11: when a generation call of a start or resume run raises, the step
\* that raised leaves the checkpoint and the count of completed steps as
\* they were, no step of the call writes GAME_SESSIONS or FINAL_HTML_STORE,
\* and the call is answered with an error
Stores == <<GAME_SESSIONS, FINAL_HTML_STORE>>
GraphCall(c) == c.kind \in {"start", "resume"}
GenerationFailureWritesNothing ==
  [][/\ (GraphCall(call') /\ call'.pc # "idle") => UNCHANGED Stores
     /\ (/\ GraphCall(call) /\ call.pc = "graph" /\ call'.outcome = "error"
         /\ Cursor(call.sid) \notin NonGenerationNodes)
          => UNCHANGED <<checkpoint, nodeRuns>> /\ call'.pc = "return"
     /\ (GraphCall(call) /\ call.pc = "return" /\ GenerationFailed(call.sid))
          => /\ UNCHANGED <<Stores, checkpoint, nodeRuns>>
             /\ call'.pc = "idle" /\ call'.resp.type = "error"]_vars
FailedRepairLeftStoresAlone ==
  /\ call.kind = "resume" /\ Idle /\ GenerationFailed(call.sid)
  /\ Cursor(call.sid) = "fix_game_code"
  /\ FixIteration(call.sid) = nodeRuns[call.sid]["fix_game_code"]
  /\ Has(GAME_SESSIONS[call.sid], "__interrupt__")
  /\ call.sid \notin DOMAIN FINAL_HTML_STORE
  /\ call.resp = ErrorResponse(500)

\* C12: a call of llm_invoke_text with retries = n invokes the backend at
\* most n times, in order 1, 2, ...; if some invocation answers, the call
\* returns the stripped text of the first one that does and stops there; it
\* raises exactly when all n invocations raised, having made all n
FirstAnswer(o) == Min({i \in DOMAIN o : o[i].ok})
RetryBoundedAndStopsAtSuccess ==
  (probe.fn = "llm_invoke_text" /\ probe.done) =>
    LET o == probe.outcomes
        n == probe.retries
        r == probe.result
    IN /\ Len(r.invoked) <= n
       /\ \A i \in 1..Len(r.invoked) : r.invoked[i] = i
       /\ (\E i \in 1..n : o[i].ok)
            => /\ ~r.raised
               /\ r.text = Strip(o[FirstAnswer(o)].content)
               /\ Len(r.invoked) = FirstAnswer(o)
       /\ r.raised <=> (\A i \in 1..n : ~o[i].ok)
       /\ r.raised => Len(r.invoked) = n
AnsweredOnLastAttempt ==
  /\ probe.fn = "llm_invoke_text" /\ probe.done /\ probe.retries = retries
  /\ ~probe.outcomes[1].ok /\ ~probe.outcomes[2].ok /\ probe.outcomes[3].ok
  /\ probe.result = [raised |-> FALSE, text |-> <<"t2">>, invoked |-> <<1, 2, 3>>]

\* C13: in every variant, a node whose generation call meets one failing
\* invocation of the backend followed by an answer does not raise
TransientFailureNeverFailsStep ==
  (/\ probe.fn = "node" /\ probe.done
   /\ probe.backend.failures = 1
   /\ probe.backend1.failures = 0 /\ probe.backend2.failures = 0)
    => ~probe.result.raised

\* C14: a /api/feedback call for a session id that is not in GAME_SESSIONS
\* is answered 404 at once: no node is called, and GAME_SESSIONS,
\* FINAL_HTML_STORE and the checkpoints stay as they were
FeedbackArrives == Idle /\ nfeedbacks' = nfeedbacks + 1
UnknownSessionFeedbackRejected ==
  /\ [](call.kind = "feedback" /\ call.resp = ErrorResponse(404) => Idle /\ call.ran = 0)
  /\ [][(FeedbackArrives /\ call'.sid \notin DOMAIN GAME_SESSIONS)
          => /\ call'.kind = "feedback" /\ call'.pc = "idle" /\ call'.ran = 0
             /\ call'.resp = ErrorResponse(404)
             /\ UNCHANGED <<Stores, checkpoint, nodeRuns>>]_vars
FeedbackForUnknownSession ==
  /\ call.kind = "feedback" /\ Idle /\ call.resp = ErrorResponse(404)
  /\ call.sid \notin DOMAIN GAME_SESSIONS
  /\ call.ran = 0

\* C15: when a /api/feedback call on a stored session is answered with an
\* error, GAME_SESSIONS[sid] equals what it was when the call arrived
FailedFeedbackKeepsStoredState ==
  (/\ call.kind = "feedback" /\ Idle /\ call.resp.type = "error"
   /\ call.sid \in DOMAIN GAME_SESSIONS)
    => GAME_SESSIONS[call.sid] = call.stored

\* C16: the keys of a session's state only grow: every step keeps the keys
\* of the thread's checkpointed values; the state a feedback call works on
\* starts with every key of the stored state, no node it calls removes one,
\* and what the call stores back has every key that was stored before
Keys(d) == DOMAIN d
InFeedbackCall == call.kind = "feedback" /\ call.pc # "idle"
FinishedRun(s) == Cursor(s) = END /\ nodeRuns[s]["finalize_output"] = 1
\* the cycle is review, fix, review, fix, ...: it was left after a fix
FinalizedByFixBranch(s) ==
  /\ FinishedRun(s)
  /\ nodeRuns[s]["fix_game_code"] >= 1
  /\ nodeRuns[s]["review_code"] = nodeRuns[s]["fix_game_code"]
FinalizedByReviewBranch(s) ==
  /\ FinishedRun(s)
  /\ nodeRuns[s]["review_code"] = nodeRuns[s]["fix_game_code"] + 1
ReportedFixIterations(s) == checkpoint[s].values["final_response"].fix_iterations
ForcedFinalizeIsObservable ==
  \A s \in Started :
    variant \in Capped =>
      /\ FinalizedByFixBranch(s) => ReportedFixIterations(s) = MAX_FIX_ITERATIONS + 1
      /\ FinalizedByReviewBranch(s)
           => /\ ReportedFixIterations(s) <= MAX_FIX_ITERATIONS
              /\ StatusOf(checkpoint[s].values) # "fail"
ForcedFinalizeReported ==
  \E s \in Started :
    /\ variant = "html_agent" /\ FinalizedByFixBranch(s)
    /\ StatusOf(checkpoint[s].values) = "fail"
    /\ ReportedFixIterations(s) = MAX_FIX_ITERATIONS + 1

\* C18: feedback_iteration is absent (zero) until the first feedback round,
\* every round that is served adds one to it, and it never exceeds
\* MAX_FEEDBACK_ITERATIONS
FeedbackIteration(sid) == Get(GAME_SESSIONS[sid], "feedback_iteration", 0)
FeedbackIterationStaysUnderCeiling ==
  /\ \A sid \in DOMAIN GAME_SESSIONS :
       /\ FeedbackIteration(sid) <= MAX_FEEDBACK_ITERATIONS
       /\ nfeedbacks = 0 => FeedbackIteration(sid) = 0
  /\ InFeedbackCall
       => call.state["feedback_iteration"] = FeedbackIteration(call.sid) + 1

\* C19: when the generated text has no JSON-like substring, safe_json_parse
\* fails and each step that parses it returns normally with its output field
\* set to one default that is fixed for the step (the statement as written)
ParsingNodes ==
  {"intent_analysis", "generate_questions", "engine_decision", "identify_game_template",
   "suggest_visual_feature_changes", "review_code", "verify_feedback_applied"}
NoJsonLike(t) ==
  /\ \A i \in 1..Len(t) : t[i] \notin {"{", "}", "[", "]"}
  /\ \A i \in 1..Len(t) : \A j \in i..Len(t) : ~IsJson(SubSeq(t, i, j))
NoJsonReply ==
  /\ probe.fn = "node"
  /\ probe.done
  /\ probe.node \in ParsingNodes
  /\ probe.backend.failures = 0
  /\ NoJsonLike(probe.backend.text)
OutputField(node) ==
  CASE node = "intent_analysis" -> "intent"
    [] node = "generate_questions" -> "questions"
    [] node = "engine_decision" -> "engine_choice"
    [] node = "identify_game_template" -> "chosen_template"
    [] node = "suggest_visual_feature_changes" -> "game_modifications"
    [] OTHER -> "review_notes"
StaticDefault(v, node) ==
  CASE node = "intent_analysis" -> <<"{", "genre=unknown", "}">>
    [] node = "generate_questions" -> <<"[", "{", "q=x", "}", "]">>
    [] node = "engine_decision" -> "HTML_CANVAS"
    [] node = "identify_game_template" -> IF v = "agent__" THEN "sports" ELSE "platformer"
    [] node = "suggest_visual_feature_changes" ->
         IF v = "agent__" THEN <<"{", "visual_changes=none", "}">>
         ELSE <<"{", "Changes=none", "}">>
    [] OTHER -> IF v = "html_agent" THEN <<"{", "status=pass", ",", "issues=none", "}">>
                ELSE <<"{", "status=fail", ",", "issues=x", "}">>
StepFellBackTo(default) ==
  /\ safe_json_parse(variant, probe.backend.text) = ParseError
  /\ ~probe.result.raised
  /\ IF probe.node = "verify_feedback_applied"
     THEN probe.result.state = probe.state
     ELSE probe.result.state = Put(probe.state, OutputField(probe.node), default)
NoJsonGivesStaticDefault ==
  NoJsonReply => StepFellBackTo(StaticDefault(variant, probe.node))

\* C19 (amended): the same, except that the default of engine_decision is
\* computed from the design: PHASER when design_doc_structured gives
\* estimated_complexity "high", HTML_CANVAS otherwise
DesignSaysHigh(st) ==
  /\ Has(st, "design_doc_structured")
  /\ Contains(st["design_doc_structured"], "estimated_complexity=high")
StepDefault(v, node, st) ==
  IF node = "engine_decision" /\ DesignSaysHigh(st) THEN "PHASER"
  ELSE StaticDefault(v, node)
NoJsonGivesStepFallback ==
  NoJsonReply => StepFellBackTo(StepDefault(variant, probe.node, probe.state))
EngineFellBackToPhaser ==
  /\ NoJsonReply
  /\ probe.node = "engine_decision"
  /\ DesignSaysHigh(probe.state)
  /\ ~probe.result.raised
  /\ probe.result.state["engine_choice"] = "PHASER"

\* C20: a text that is exactly one well-formed JSON object with prose around
\* it (prose that holds no JSON of its own, but may hold braces and
\* brackets) is parsed to that object
HoldsNoJson(t) == \A i \in 1..Len(t) : \A j \in i..Len(t) : ~IsJson(SubSeq(t, i, j))
ObjectInProse ==
  /\ probe.fn = "safe_json_parse"
  /\ probe.done
  /\ HoldsNoJson(probe.before)
  /\ HoldsNoJson(probe.after)
ObjectInProseIsReturned == ObjectInProse => probe.result = Parsed(probe.object)

\* C21: the stored state and the stored html of a session change only in a
\* step of a request made for that session, however the requests in flight
\* for different sessions interleave
SessionIds == 1..(2 + MaxInFlight)
StoredAt(map, sid) == IF sid \in DOMAIN map THEN <<map[sid]>> ELSE <<>>
StepOfRequestFor(sid) ==
  \E r \in Requests :
    /\ probe'.requests[r] # probe.requests[r]
    /\ probe'.requests[r].sid = sid
SessionsAreIsolated ==
  [][\A sid \in SessionIds :
       (\/ StoredAt(GAME_SESSIONS, sid) # StoredAt(GAME_SESSIONS', sid)
        \/ StoredAt(FINAL_HTML_STORE, sid) # StoredAt(FINAL_HTML_STORE', sid))
       => StepOfRequestFor(sid)]_vars
TwoSessionsServedTogether ==
  /\ probe.fn = "serve"
  /\ \E r1, r2 \in Requests :
       /\ probe.requests[r1].kind = "resume"
       /\ probe.requests[r1].sid = 1
       /\ probe.requests[r1].pc = "done"
       /\ probe.requests[r1].steps > 0
       /\ probe.requests[r2].kind = "start"
       /\ probe.requests[r2].pc = "graph"
       /\ probe.requests[r2].steps > 0
       /\ Has(GAME_SESSIONS[1], "final_response")

\* C22: of two /api/resume requests in flight for the same suspended
\* session, at most one executes steps of the pipeline from the suspension
\* point and writes the session's checkpoint
ResumedFromSuspension(r) ==
  /\ probe.requests[r].kind = "resume"
  /\ probe.requests[r].entry = "collect_user_answers"
OneWriterPerSession ==
  probe.fn = "serve" =>
    \A r1, r2 \in Requests :
      (/\ r1 # r2
       /\ ResumedFromSuspension(r1)
       /\ ResumedFromSuspension(r2)
       /\ probe.requests[r1].sid = probe.requests[r2].sid)
      => ~(probe.requests[r1].steps > 0 /\ probe.requests[r2].steps > 0)

\* C23: the session_id field of a session's state is the identifier its run
\* is checkpointed and stored under, from the first step on, and every
\* interrupt or success response carries that identifier
SessionIdOf(st) == Get(st, "session_id", NoneValue)
Answered == call.pc = "idle" /\ call.resp.type \in {"interrupt", "success"}
SessionIdIsStable ==
  /\ \A sid \in DOMAIN checkpoint : SessionIdOf(checkpoint[sid].values) = sid
  /\ \A sid \in DOMAIN GAME_SESSIONS : SessionIdOf(GAME_SESSIONS[sid]) = sid
  /\ InFeedbackCall => SessionIdOf(call.state) = call.sid
  /\ call.pc = "return" /\ call.outcome = "interrupt" => call.payload.session_id = call.sid
  /\ Answered =>
       /\ call.sid \in DOMAIN GAME_SESSIONS
       /\ call.resp.session_id = SessionIdOf(GAME_SESSIONS[call.sid])
SessionIdReportedAfterFeedback ==
  /\ Answered
  /\ call.kind = "feedback"
  /\ nodeRuns[call.sid]["collect_user_idea"] > 0
  /\ call.resp.session_id = SessionIdOf(GAME_SESSIONS[call.sid])

\* C24: review_branch always answers one of its two node names, and answers
\* fix_game_code exactly when review_notes is absent or empty, has no status
\* member, or has the status fail; any other status gives finalize_output
Range(q) == {q[i] : i \in 1..Len(q)}
NotesOf(st) == Get(st, "review_notes", <<>>)
AsksForRepair(st) ==
  \/ Range(NotesOf(st)) \cap StatusTokens = {}
  \/ "status=fail" \in Range(NotesOf(st))
ReviewBranchIsTotal ==
  (probe.fn = "review_branch" /\ probe.done)
    => /\ probe.result \in {"fix_game_code", "finalize_output"}
       /\ probe.result = "fix_game_code" <=> AsksForRepair(probe.state)
UnknownStatusFinalizes ==
  /\ probe.fn = "review_branch"
  /\ probe.done
  /\ "status=ok" \in Range(NotesOf(probe.state))
  /\ probe.result = "finalize_output"

\* C25: whenever review_code completes, review_notes is a verdict whose
\* status is pass or fail, whatever the reviewer replied
ReviewCodeCompleted ==
  /\ probe.fn = "node"
  /\ probe.node = "review_code"
  /\ probe.done
  /\ ~probe.result.raised
ReviewNotesIsPassOrFail ==
  ReviewCodeCompleted
    => /\ Has(probe.result.state, "review_notes")
       /\ DictGet(probe.result.state["review_notes"], "status", NoneValue) \in {"pass", "fail"}

\* C26: every node a graph registers can be reached from its entry point by
\* following the graph's edges
EveryNodeIsReachable ==
  probe.fn = "walk" => Registered(variant) \subseteq ReachableFrom(variant, {EntryPoint(variant)})

\* C27: when the whole text is not JSON, safe_json_parse takes the span from
\* the first opening brace to the brace that balances it (and likewise for
\* brackets), not the span that ends at the last closing brace
ParsedText == probe.before \o probe.object \o probe.after
CountIn(t, tok, i, j) == Cardinality({k \in i..j : t[k] = tok})
BalancedEnds(t, open, close) ==
  IF Positions(t, open) = {} THEN {}
  ELSE {j \in Min(Positions(t, open))..Len(t) :
          CountIn(t, open, Min(Positions(t, open)), j)
            = CountIn(t, close, Min(Positions(t, open)), j)}
BalancedSpan(t, open, close) ==
  SubSeq(t, Min(Positions(t, open)), Min(BalancedEnds(t, open, close)))
ParsesBalanced(t, open, close) ==
  BalancedEnds(t, open, close) # {} /\ IsJson(BalancedSpan(t, open, close))
BalancedParse(t) ==
  IF IsJson(t) THEN Parsed(t)
  ELSE IF ParsesBalanced(t, "{", "}") THEN Parsed(BalancedSpan(t, "{", "}"))
  ELSE IF ParsesBalanced(t, "[", "]") THEN Parsed(BalancedSpan(t, "[", "]"))
  ELSE ParseError
SelectsBalancedSpan ==
  (probe.fn = "safe_json_parse" /\ probe.done) => probe.result = BalancedParse(ParsedText)

\* C28: a text that is plain prose (no brace, no bracket) around one
\* well-formed JSON array is parsed to that array, whatever its elements
ArrayInProse ==
  /\ probe.fn = "safe_json_parse"
  /\ probe.done
  /\ probe.object \in JsonArrays
  /\ probe.before \in PlainRuns
  /\ probe.after \in PlainRuns
ArrayInProseIsReturned == ArrayInProse => probe.result = Parsed(probe.object)

\* C29: whichever template identify_game_template chose and whatever the
\* idea says, load_template_from_library completes, and leaves
\* base_template_code or final_code in the state
TemplateLoadFailed(s) ==
  /\ call.sid = s
  /\ call.outcome = "error"
  /\ Cursor(s) = "load_template_from_library"
TemplateLoadAlwaysCompletes ==
  \A s \in Started :
    /\ ~TemplateLoadFailed(s)
    /\ nodeRuns[s]["load_template_from_library"] > 0
         => \/ Has(checkpoint[s].values, "base_template_code")
            \/ Has(checkpoint[s].values, "final_code")

\* C30: the repair loop of /api/feedback is bounded: the call starts with
\* fix_iteration 0, the counter is the number of fix_game_code calls made so
\* far, at most 3 fix_game_code and 4 review_code calls are made, and the
\* fix_iteration stored when the call has answered is between 0 and 3
CallFixIteration == Get(call.state, "fix_iteration", 0)
FeedbackFixLoopIsBounded ==
  /\ call.kind = "feedback" => call.ran <= 2 + 2 * max_fix_rounds + 1
  /\ InFeedbackCall =>
       /\ CallFixIteration \in 0..max_fix_rounds
       /\ call.pc = "fb_apply" => call.ran = 0 /\ CallFixIteration = 0
       /\ call.pc = "fb_review" => call.ran = 1 + 2 * CallFixIteration
       /\ call.pc = "fb_loop" => call.ran = 2 + 2 * CallFixIteration
  /\ (call.kind = "feedback" /\ Idle /\ call.sid \in DOMAIN GAME_SESSIONS)
       => Get(GAME_SESSIONS[call.sid], "fix_iteration", 0) \in 0..max_fix_rounds
FeedbackRepairedThreeTimes ==
  /\ call.kind = "feedback"
  /\ Idle
  /\ call.resp.type = "success"
  /\ call.ran = 2 + 2 * max_fix_rounds + 1
  /\ GAME_SESSIONS[call.sid]["fix_iteration"] = max_fix_rounds

\* C31: /api/feedback calls on one session lose no update: each call that
\* succeeds stores a feedback_iteration one above the stored one and appends
\* its own entry, numbered with it, to the stored feedback_history, so the
\* entries of a history are numbered 1, 2, ... without repetition
FeedbackSucceeds(r) ==
  /\ probe.requests[r].pc = "new"
  /\ probe'.requests[r].kind = "feedback"
  /\ probe'.requests[r].resp.type = "success"
StoredRounds(stored) == Get(stored, "feedback_iteration", 0)
StoredHistory(stored) == Get(stored, "feedback_history", <<>>)
RoundAdded(before, after) ==
  /\ StoredRounds(after) = StoredRounds(before) + 1
  /\ StoredHistory(after) =
       Append(StoredHistory(before),
              [iteration |-> StoredRounds(before) + 1, feedback |-> "faster"])
NumberedInOrder(stored) ==
  /\ Len(StoredHistory(stored)) = StoredRounds(stored)
  /\ \A i \in 1..Len(StoredHistory(stored)) : StoredHistory(stored)[i].iteration = i
NoFeedbackIsLost ==
  [][/\ \A r \in Requests :
          FeedbackSucceeds(r)
            => RoundAdded(GAME_SESSIONS[probe'.requests[r].sid],
                          GAME_SESSIONS'[probe'.requests[r].sid])
     /\ \A sid \in DOMAIN GAME_SESSIONS' : NumberedInOrder(GAME_SESSIONS'[sid])]_vars
TwoFeedbacksBothStored ==
  /\ probe.fn = "serve"
  /\ \A r \in Requests :
       /\ probe.requests[r].kind = "feedback"
       /\ probe.requests[r].sid = 2
       /\ probe.requests[r].resp.type = "success"
  /\ StoredRounds(GAME_SESSIONS[2]) = 2
  /\ Len(StoredHistory(GAME_SESSIONS[2])) = 2

\* C32: once a feedback round is stored for a session, no later call stores
\* a state without it: the stored feedback_iteration never decreases
StoredRoundsNeverDecrease ==
  [][\A sid \in DOMAIN GAME_SESSIONS :
       StoredRounds(GAME_SESSIONS'[sid]) >= StoredRounds(GAME_SESSIONS[sid])]_vars

\* C33: for every session present in both stores, FINAL_HTML_STORE holds the
\* html of the final_response stored in GAME_SESSIONS
StoresAgree ==
  \A sid \in (DOMAIN GAME_SESSIONS) \cap (DOMAIN FINAL_HTML_STORE) :
    FINAL_HTML_STORE[sid] = ResultHtml(GAME_SESSIONS[sid])

\* C34: the html that finalize_output publishes is the code the last
\* code-producing step left (each of them writes generated_code; the
\* early-completion template is written to final_code alone), and after
\* every fix_game_code and apply_feedback_to_code of agent__.py and
\* html_agent.py final_code equals generated_code
LatestCode(st) ==
  IF Has(st, "generated_code") THEN st["generated_code"] ELSE Get(st, "final_code", <<>>)
PublishesLatestCode(st) ==
  Has(st, "final_response") => st["final_response"].html = LatestCode(st)
BothCodeFieldsAgree(st) ==
  /\ Has(st, "final_code")
  /\ Has(st, "generated_code")
  /\ st["final_code"] = st["generated_code"]
PublishedIsLatest ==
  /\ \A s \in Started : PublishesLatestCode(checkpoint[s].values)
  /\ \A s \in DOMAIN GAME_SESSIONS : PublishesLatestCode(GAME_SESSIONS[s])
FixLeavesFieldsEqual ==
  \A s \in Started :
    (variant \in Capped /\ nodeRuns[s]["fix_game_code"] > 0)
      => BothCodeFieldsAgree(checkpoint[s].values)
AfterFeedbackCodeStep == InFeedbackCall /\ call.pc \in {"fb_review", "fb_loop"}
\* the original statement: every apply_feedback_to_code leaves them equal
FinalizePublishesLatestCode ==
  /\ PublishedIsLatest
  /\ FixLeavesFieldsEqual
  /\ AfterFeedbackCodeStep => BothCodeFieldsAgree(call.state)
\* the amended statement: apply_feedback_to_code does so when it has a
\* feedback to apply, and leaves both fields as they were when it has none
NothingToApply == call.state["user_feedback"] = ""
CodeFieldsOf(st) == <<Get(st, "final_code", NoneValue), Get(st, "generated_code", NoneValue)>>
FinalizePublishesLatestCodeOfFeedback ==
  /\ PublishedIsLatest
  /\ FixLeavesFieldsEqual
  /\ AfterFeedbackCodeStep =>
       IF NothingToApply /\ CallFixIteration = 0
       THEN CodeFieldsOf(call.state) = CodeFieldsOf(GAME_SESSIONS[call.sid])
       ELSE BothCodeFieldsAgree(call.state)
FeedbackCodePublished ==
  /\ call.kind = "feedback"
  /\ Idle
  /\ call.resp.type = "success"
  /\ ~NothingToApply
  /\ call.resp.html = GAME_SESSIONS[call.sid]["generated_code"]
  /\ call.resp.html # ResultHtml(checkpoint[call.sid].values)

\* C35: on the customization path of agent__.py and html_agent.py, the code
\* a finished run publishes has been through review_code: a review ran
\* after the last step that produced code, so the run has reviewed more
\* often than it has repaired
Customized(s) == ~Get(checkpoint[s].values, "early_completion", FALSE)
PublishedCodeWasReviewed ==
  \A s \in Started :
    (variant \in Capped /\ Customized(s) /\ nodeRuns[s]["finalize_output"] > 0)
      => nodeRuns[s]["review_code"] > nodeRuns[s]["fix_game_code"]

\* C36: in html_agent, when the idea holds one of the keywords "match 3",
\* "mario" or "pac man", load_template_from_library completes and sets
\* final_code and early_completion, and the run never executes
\* suggest_visual_feature_changes, apply_changes_to_template, review_code or
\* fix_game_code, so fix_iteration stays 0
EarlyCompletionKeywords == {"match 3", "mario", "pac man"}
IdeaHasKeyword(s) ==
  \E word \in EarlyCompletionKeywords :
    Contains(Get(checkpoint[s].values, "user_raw_input", <<>>), word)
CustomizationNodes ==
  {"suggest_visual_feature_changes", "apply_changes_to_template",
   "review_code", "fix_game_code"}
EarlyCompletionSkipsCustomization ==
  \A s \in Started :
    (variant = "html_agent" /\ IdeaHasKeyword(s)) =>
      /\ ~TemplateLoadFailed(s)
      /\ nodeRuns[s]["load_template_from_library"] > 0
           => /\ Has(checkpoint[s].values, "final_code")
              /\ Get(checkpoint[s].values, "early_completion", FALSE)
      /\ \A n \in CustomizationNodes : nodeRuns[s][n] = 0
      /\ Get(checkpoint[s].values, "fix_iteration", 0) = 0

\* C37: in the agent.py graph validated is TRUE only in a state whose
\* user_raw_input and answers are both non-empty; a run whose idea is empty,
\* or whose answers are empty once collect_user_answers has stored them,
\* fails in validate_inputs and executes neither design_game_blueprint nor
\* any later step
StepsAfterValidation ==
  {"design_game_blueprint", "engine_decision", "build_code_prompt",
   "generate_game_code", "review_code", "fix_game_code", "finalize_output"}
InputMissing(st) ==
  \/ Get(st, "user_raw_input", <<>>) = <<>>
  \/ Get(st, "answers", <<>>) = <<>>
StoppedAtValidation(s) ==
  /\ Cursor(s) = "validate_inputs"
  /\ call.sid = s => (call.pc = "graph" \/ call.outcome = "error")
InvalidInputsNeverPassValidation ==
  \A s \in Started :
    variant = "agent" =>
      /\ Get(checkpoint[s].values, "validated", FALSE)
           => ~InputMissing(checkpoint[s].values)
      /\ InputMissing(checkpoint[s].values)
           => /\ \A n \in StepsAfterValidation : nodeRuns[s][n] = 0
              /\ Has(checkpoint[s].values, "answers") => StoppedAtValidation(s)
EmptyAnswersFailedValidation ==
  \E s \in Started :
    /\ variant = "agent"
    /\ Has(checkpoint[s].values, "answers")
    /\ Get(checkpoint[s].values, "answers", <<>>) = <<>>
    /\ Get(checkpoint[s].values, "user_raw_input", <<>>) # <<>>
    /\ call.sid = s /\ call.kind = "resume" /\ call.outcome = "error"
    /\ Cursor(s) = "validate_inputs"
    /\ nodeRuns[s]["design_game_blueprint"] = 0

====
